---- MODULE Spec2Model ----
(***************************************************************************)
(* A model of the nutmeg tokenizer (package tokenizer): the cursor, the    *)
(* numeric, string and rule matchers, the expectation stack and the driver *)
(* loop.  The source text is a sequence of bytes; a byte is written as a   *)
(* one-character string, and the bytes of the two-byte runes are written   *)
(* by a lead byte "C2", "C3" or "EF" and continuation bytes "AB", "BB",     *)
(* "A0", "A9", "BF", "BD": "C2" "AB" is the left guillemet, "C3" "A9" the  *)
(* e acute, "EF" "BF" "BD" the replacement character.                      *)
(***************************************************************************)
EXTENDS Integers, Sequences, FiniteSets, TLC

VARIABLES
  rulesFile,      \* main: the rules file that was loaded, <<>> when none was named
  input,          \* Tokenizer.input, the bytes of the source
  rules,          \* Tokenizer.rules
  position,       \* Tokenizer.position, a byte offset (0-based)
  line,           \* Tokenizer.line
  column,         \* Tokenizer.column
  markStack,      \* Tokenizer.markStack/lineNoStack/lineColStack, one record per mark
  tokens,         \* Tokenizer.tokens
  expectingStack, \* Tokenizer.expectingStack
  pc,             \* "main" before the tokenizer is built, "exit" when main gives up,
                  \* "run" while Tokenize loops, "done" once it has returned,
                  \* "panic" once it has panicked
  err,            \* the error Tokenize returns: <<>> is nil
  history,        \* per appended token: the cursor and stack around it (observation only)
  queue,          \* the inputs the caller tokenizes next, each with a new Tokenizer
  finished        \* what the earlier calls of Tokenize returned (observation only)

vars == <<rulesFile, input, rules, position, line, column, markStack, tokens,
          expectingStack, pc, err, history, queue, finished>>

-----------------------------------------------------------------------------
(* Go values: a nil pointer or nil slice is <<>>, a set one is <<v>>. *)

Nil == <<>>

Slice(list) == <<list>>

SliceLen(s) == IF s = Nil THEN 0 ELSE Len(s[1])

Elems(s) == IF s = Nil THEN <<>> ELSE s[1]

Ptr(v) == <<v>>

Zero == 0

One == 1

Many == 2

-----------------------------------------------------------------------------
(* Bytes and runes. *)

Digits == {"0", "1", "2", "3", "4", "5", "6", "7", "8", "9"}

UpperLetters ==
  {"A", "B", "C", "D", "E", "F", "G", "H", "I", "J", "K", "L", "M",
   "N", "O", "P", "Q", "R", "S", "T", "U", "V", "W", "X", "Y", "Z"}

LowerLetters ==
  {"a", "b", "c", "d", "e", "f", "g", "h", "i", "j", "k", "l", "m",
   "n", "o", "p", "q", "r", "s", "t", "u", "v", "w", "x", "y", "z"}

\* a rune of more than one byte is written as its bytes in a row
RuneError == "EFBFBD"

LAQUO == "C2AB"

RAQUO == "C2BB"

NBSP == "C2A0"

EACUTE == "C3A9"

\* the byte 0x60
BACKTICK == "BACKTICK"

\* the byte 0x0B
VTAB == "VTAB"

LeadBytes == {"C2", "C3"}

ContinuationBytes == {"AB", "BB", "A0", "A9", "BF", "BD"}

\* the well-formed sequences of more than one byte: a lead byte C2 or C3
\* and one continuation byte, or the lead byte EF and two of them
MultiByteSeqs ==
  {SubSeq(<<b, c, d>>, 1, IF b = "EF" THEN 3 ELSE 2) :
     b \in {"C2", "C3", "EF"}, c \in ContinuationBytes, d \in ContinuationBytes}

\* the rune a well-formed sequence encodes
RuneOf(bs) ==
  IF Len(bs) = 2 THEN bs[1] \o bs[2] ELSE bs[1] \o bs[2] \o bs[3]

MultiByteRunes == {RuneOf(bs) : bs \in MultiByteSeqs}

\* utf8.DecodeRuneInString(input[p:]): the rune at byte offset p and its size.
DecodeRuneInString(s, p) ==
  IF p >= Len(s) THEN [r |-> RuneError, size |-> 0]
  ELSE LET b == s[p + 1]
           n == IF b = "EF" THEN 3 ELSE 2
           bs == SubSeq(s, p + 1, p + n)
       IN  IF b \in {"C2", "C3", "EF"} /\ p + n <= Len(s) /\ bs \in MultiByteSeqs
           THEN [r |-> RuneOf(bs), size |-> n]
           ELSE IF b \in LeadBytes \cup ContinuationBytes \cup {"EF"}
                THEN [r |-> RuneError, size |-> 1]
           ELSE [r |-> b, size |-> 1]

\* string(r): the UTF-8 bytes of a rune
RuneBytes(r) ==
  IF r \in MultiByteRunes THEN CHOOSE bs \in MultiByteSeqs : RuneOf(bs) = r
  ELSE <<r>>

\* utf8.RuneLen
RuneLen(r) == Len(RuneBytes(r))

\* unicode.IsSpace
IsSpace(r) == r \in {" ", "\t", "\n", VTAB, "\f", "\r", NBSP}

\* the letters among the runes of more than one byte: U+00E0, U+00E9,
\* U+00EB, U+00FB, U+00FD, U+00FF, the CJK compatibility ideographs
\* U+FA60..U+FA7F, the Arabic presentation forms U+FEE0..U+FEFB and the
\* halfwidth katakana U+FF69..U+FF7F
MultiByteLetters ==
  {"C3AB", "C3BB", "C3A0", "C3A9", "C3BF", "C3BD",
   "EFA9AB", "EFA9BB", "EFA9A0", "EFA9A9", "EFA9BF", "EFA9BD",
   "EFBBAB", "EFBBBB", "EFBBA0", "EFBBA9",
   "EFBDAB", "EFBDBB", "EFBDA9", "EFBDBF", "EFBDBD"}

\* unicode.IsLetter
IsLetter(r) == r \in LowerLetters \cup UpperLetters \cup MultiByteLetters

\* unicode.IsDigit
IsDigit(r) == r \in Digits

\* input[from:to] with 0-based byte offsets
Slice2(s, from, to) ==
  IF to <= from THEN <<>> ELSE SubSeq(s, from + 1, to)

-----------------------------------------------------------------------------
(* The cursor.  A cursor value t is the record of the Tokenizer fields a   *)
(* matcher changes: position, line, column, markStack.                     *)

Cursor(p, l, c, m) == [position |-> p, line |-> l, column |-> c, markStack |-> m]

RECURSIVE advance(_, _)
advance(t, n) ==
  IF n <= 0 \/ t.position >= Len(input) THEN t
  ELSE LET nl == input[t.position + 1] = "\n"
       IN  advance([t EXCEPT !.line = IF nl THEN @ + 1 ELSE @,
                             !.column = IF nl THEN 1 ELSE @ + 1,
                             !.position = @ + 1], n - 1)

peek(t) ==
  IF t.position >= Len(input) THEN [r |-> "NUL", ok |-> FALSE]
  ELSE LET rune(d) == [r |-> d.r, ok |-> d.size > 0]
       IN  rune(DecodeRuneInString(input, t.position))

consume(t) ==
  LET step(p) == IF ~p.ok THEN [t |-> t, r |-> p.r]
                 ELSE [t |-> advance(t, RuneLen(p.r)), r |-> p.r]
  IN  step(peek(t))

hasMoreInput(t) == t.position < Len(input)

-----------------------------------------------------------------------------
(* Tokens (token.go). *)

Position(l, c) == [Line |-> l, Col |-> c]

Span(start, end) == [Start |-> start, End |-> end]

\* Span{End: end}: the start is the zero Position
SpanEnd(end) == Span(Position(0, 0), end)

NewToken(text, tokenType, span) ==
  [Text |-> text, Type |-> tokenType, Span |-> span, Alias |-> Nil,
   Quote |-> "", Value |-> Nil, Specifier |-> Nil, Subtokens |-> <<>>,
   Radix |-> Nil, Base |-> Nil, Mantissa |-> Nil, Fraction |-> Nil,
   Exponent |-> Nil, Balanced |-> Nil,
   Expecting |-> Nil, In |-> Nil, ClosedBy |-> Nil, Arity |-> Nil,
   Precedence |-> Nil, InfixPrecedence |-> Nil, Prefix |-> Nil,
   Reason |-> Nil, LnBefore |-> Nil, LnAfter |-> Nil]

TokenType ==
  [NumericLiteral |-> "n",
   StringLiteral |-> "s",
   MultiLineString |-> "m",
   InterpolatedString |-> "i",
   Expression |-> "e",
   Start |-> "S",
   End |-> "E",
   Bridge |-> "B",
   Prefix |-> "P",
   Variable |-> "V",
   Operator |-> "O",
   OpenDelimiter |-> "[",
   CloseDelimiter |-> "]",
   Mark |-> "M",
   Unclassified |-> "U",
   Exception |-> "X"]

NewNumericToken(text, radix, base, mantissa, fraction, exponent, span) ==
  [NewToken(text, TokenType.NumericLiteral, span) EXCEPT
     !.Radix = Ptr(radix), !.Base = Ptr(base), !.Mantissa = Ptr(mantissa),
     !.Fraction = IF fraction # <<>> THEN Ptr(fraction) ELSE Nil,
     !.Exponent = IF exponent # 0 THEN Ptr(exponent) ELSE Nil]

NewBalancedTernaryToken(text, mantissa, fraction, exponent, span) ==
  [NewToken(text, TokenType.NumericLiteral, span) EXCEPT
     !.Radix = Ptr(<<"0", "t">>), !.Base = Ptr(3), !.Mantissa = Ptr(mantissa),
     !.Balanced = Ptr(TRUE),
     !.Fraction = IF fraction # <<>> THEN Ptr(fraction) ELSE Nil,
     !.Exponent = IF exponent # 0 THEN Ptr(exponent) ELSE Nil]

NewStartToken(text, expecting, closedBy, span, arity) ==
  [NewToken(text, TokenType.Start, span) EXCEPT
     !.Expecting = expecting, !.ClosedBy = closedBy, !.Arity = Ptr(arity)]

NewOperatorToken(text, prefix, infix, postfix, span) ==
  [NewToken(text, TokenType.Operator, span) EXCEPT
     !.Precedence = IF prefix > 0 \/ infix > 0 \/ postfix > 0
                    THEN Ptr(<<prefix, infix, postfix>>) ELSE Nil]

NewDelimiterToken(text, closedBy, isInfix, isPrefix, span) ==
  [NewToken(text, TokenType.OpenDelimiter, span) EXCEPT
     !.ClosedBy = closedBy, !.InfixPrecedence = Ptr(isInfix),
     !.Prefix = Ptr(isPrefix)]

NewBridgeToken(text, expecting, inside, arity, span) ==
  [NewToken(text, TokenType.Bridge, span) EXCEPT
     !.Expecting = expecting, !.In = inside, !.Arity = Ptr(arity)]

NewStmntBridgeToken(text, expecting, inside, span) ==
  NewBridgeToken(text, expecting, inside, Many, span)

\* a variant that gives the token the text of the keyword it stands for
NewWildcardBridgeTokenDonorText(text, expectedText, expecting, inside, arity, span) ==
  [NewToken(expectedText, TokenType.Bridge, span) EXCEPT
     !.Expecting = expecting, !.In = inside, !.Alias = Ptr(expectedText),
     !.Arity = Ptr(arity)]

NewWildcardBridgeToken(text, expectedText, expecting, inside, arity, span) ==
  [NewToken(text, TokenType.Bridge, span) EXCEPT
     !.Expecting = expecting, !.In = inside, !.Alias = Ptr(expectedText),
     !.Arity = Ptr(arity)]

NewPrefixToken(text, tokenType, span, arity) ==
  [NewToken(text, tokenType, span) EXCEPT !.Arity = Ptr(arity)]

\* reason is a sequence of text pieces; pieces are concatenated with \o
NewExceptionToken(text, reason, span) ==
  [NewToken(text, TokenType.Exception, span) EXCEPT !.Reason = Ptr(reason)]

NewStringToken(text, value, span) ==
  [NewToken(text, TokenType.StringLiteral, span) EXCEPT !.Value = Ptr(value)]

NewMultiLineStringToken(text, value, span) ==
  [NewToken(text, TokenType.MultiLineString, span) EXCEPT !.Value = Ptr(value)]

NewInterpolatedStringToken(text, subtokens, span) ==
  [NewToken(text, TokenType.StringLiteral, span) EXCEPT !.Subtokens = subtokens]

NewExpressionToken(text, span) ==
  [NewToken(text, TokenType.Expression, span) EXCEPT !.Value = Ptr(text)]

SetQuote(tok, r) ==
  [tok EXCEPT !.Quote = IF r = "'" THEN "single"
                        ELSE IF r = "\"" THEN "double"
                        ELSE IF r = BACKTICK THEN "backtick"
                        ELSE r]

DigitChars ==
  <<"0", "1", "2", "3", "4", "5", "6", "7", "8", "9",
    "A", "B", "C", "D", "E", "F", "G", "H", "I", "J", "K", "L", "M",
    "N", "O", "P", "Q", "R", "S", "T", "U", "V", "W", "X", "Y", "Z">>

\* the value of a digit 0-9 or A-Z
DigitValue(char) == (CHOOSE i \in 1..36 : DigitChars[i] = char) - 1

isValidDigitForRadix(char, radix, allowBalancedTernary) ==
  IF allowBalancedTernary /\ radix = 3 /\ char = "T" THEN TRUE
  ELSE IF char \in Digits THEN DigitValue(char) < radix
  ELSE IF char \in UpperLetters THEN DigitValue(char) < radix
  ELSE FALSE

isValidDigitsForRadix(digits, radix, allowBalancedTernary) ==
  \A i \in 1..Len(digits) :
     digits[i] = "_" \/ isValidDigitForRadix(digits[i], radix, allowBalancedTernary)

Contains(text, b) == \E i \in 1..Len(text) : text[i] = b

\* strings.Index(text, b) for a one-byte b that occurs in text
Index(text, b) ==
  (CHOOSE i \in 1..Len(text) : text[i] = b /\ \A j \in 1..(i - 1) : text[j] # b) - 1

\* (valid, reason)
isValidNumber(tok) ==
  IF tok.Type # TokenType.NumericLiteral THEN [valid |-> TRUE, reason |-> <<>>]
  ELSE IF tok.Base = Nil \/ tok.Mantissa = Nil
       THEN [valid |-> FALSE, reason |-> <<"missing base or mantissa">>]
  ELSE
    LET base == tok.Base[1]
        mantissa == tok.Mantissa[1]
        isBalanced == tok.Balanced # Nil /\ tok.Balanced[1]
        text == tok.Text
        present == SelectSeq(<<"x", "o", "b", "t">>, LAMBDA ch : Contains(text, ch))
        badPrefix == /\ present # <<>>
                     /\ Slice2(text, 0, Index(text, present[1])) # <<"0">>
    IN  IF badPrefix THEN [valid |-> FALSE, reason |-> <<"invalid literal">>]
        ELSE IF ~isValidDigitsForRadix(mantissa, base, isBalanced)
             THEN [valid |-> FALSE, reason |-> <<"invalid literal">>]
        ELSE IF /\ tok.Fraction # Nil
                /\ tok.Fraction[1] # <<>>
                /\ ~isValidDigitsForRadix(tok.Fraction[1], base, isBalanced)
             THEN [valid |-> FALSE, reason |-> <<"invalid literal">>]
        ELSE [valid |-> TRUE, reason |-> <<>>]

-----------------------------------------------------------------------------
(* The regular expressions, matched against input[p:]; each returns the    *)
(* byte offset one past the match, or the groups of the match.             *)

IdentStart == LowerLetters \cup UpperLetters \cup {"_"}

IdentChars == IdentStart \cup Digits

OperatorChars ==
  {".", "*", "/", "%", "+", "-", "<", ">", "~", "!", "&", "^", "|", "?",
   "=", ":", "$"}

RadixLetters == {"x", "o", "b", "t", "r"}

RadixDigits == Digits \cup UpperLetters

\* the end of the longest run of bytes of class C that starts at offset p
RECURSIVE RunEnd(_, _)
RunEnd(p, C) ==
  IF p < Len(input) /\ input[p + 1] \in C THEN RunEnd(p + 1, C) ELSE p

ByteAt(p) == IF p < Len(input) THEN input[p + 1] ELSE ""

\* (?:_C+)* from offset p
RECURSIVE UnderscoreGroups(_, _)
UnderscoreGroups(p, C) ==
  LET group(q) == IF ByteAt(p) = "_" /\ q > p + 1 THEN UnderscoreGroups(q, C) ELSE p
  IN  group(RunEnd(p + 1, C))

\* an identifier expression without the digits, ^[a-zA-Z_]+
identifierRegexNoDigits(p) ==
  IF ByteAt(p) \in IdentStart THEN Slice2(input, p, RunEnd(p + 1, IdentStart))
  ELSE <<>>

\* identifierRegex ^[a-zA-Z_][a-zA-Z0-9_]*  : the matched text, <<>> if none
identifierRegex(p) ==
  IF ByteAt(p) \in IdentStart THEN Slice2(input, p, RunEnd(p + 1, IdentChars))
  ELSE <<>>

\* operatorRegex ^[.\*/%\+\-<>~!&^|?=:$]+
operatorRegex(p) == Slice2(input, p, RunEnd(p, OperatorChars))

\* commentRegex ^###.*  (. does not match a line feed)
commentRegex(p) ==
  IF ByteAt(p) = "#" /\ ByteAt(p + 1) = "#" /\ ByteAt(p + 2) = "#"
  THEN Slice2(input, p,
              CHOOSE q \in (p + 3)..Len(input) :
                 /\ (q = Len(input) \/ input[q + 1] = "\n")
                 /\ \A k \in (p + 3)..(q - 1) : input[k + 1] # "\n")
  ELSE <<>>

\* (?:e([+-]?\d+))? from offset p: the end of the match and group e
ExponentGroup(p) ==
  LET digitsFrom(s) ==
        LET upTo(q) == IF ByteAt(p) = "e" /\ q > s
                       THEN [end |-> q, exponent |-> Slice2(input, p + 1, q)]
                       ELSE [end |-> p, exponent |-> <<>>]
        IN  upTo(RunEnd(s, Digits))
  IN  digitsFrom(IF ByteAt(p + 1) \in {"+", "-"} THEN p + 2 ELSE p + 1)

\* (\.C*(?:_C+)*)? from offset p: the end of the match
FractionGroup(p, C) ==
  IF ByteAt(p) = "." THEN UnderscoreGroups(RunEnd(p + 1, C), C) ELSE p

\* radixRegex
\*  ^(\d+[xobtr])([0-9A-Z]+(?:_[0-9A-Z]+)*)(\.[0-9A-Z]*(?:_[0-9A-Z]+)*)?(?:e([+-]?\d+))?
\* FindStringSubmatch: Nil, or the submatches 0..4 in a one-element sequence
radixRegex(p) ==
  LET groups(d, m0, m1, m2, f, e) ==
        IF d > p /\ ByteAt(d) \in RadixLetters /\ m1 > m0
        THEN << <<Slice2(input, p, e.end), Slice2(input, p, m0),
                  Slice2(input, m0, m2), Slice2(input, m2, f), e.exponent>> >>
        ELSE Nil
      fromFraction(d, m1, m2, f) == groups(d, d + 1, m1, m2, f, ExponentGroup(f))
      fromGroups(d, m1, m2) == fromFraction(d, m1, m2, FractionGroup(m2, RadixDigits))
      fromMantissa(d, m1) == fromGroups(d, m1, UnderscoreGroups(m1, RadixDigits))
      fromLetter(d) == fromMantissa(d, RunEnd(d + 1, RadixDigits))
  IN  fromLetter(RunEnd(p, Digits))

\* decimalRegex ^(\d+(?:_\d+)*)(\.\d*(?:_\d+)*)?(?:e([+-]?\d+))?
\* FindStringSubmatch: Nil, or the submatches 0..3 in a one-element sequence
decimalRegex(p) ==
  LET groups(m1, m2, f, e) ==
        IF m1 > p
        THEN << <<Slice2(input, p, e.end), Slice2(input, p, m2),
                  Slice2(input, m2, f), e.exponent>> >>
        ELSE Nil
      fromFraction(m1, m2, f) == groups(m1, m2, f, ExponentGroup(f))
      fromGroups(m1, m2) == fromFraction(m1, m2, FractionGroup(m2, Digits))
      fromMantissa(m1) == fromGroups(m1, UnderscoreGroups(m1, Digits))
  IN  fromMantissa(RunEnd(p, Digits))

-----------------------------------------------------------------------------
(* Whitespace and comments. *)

\* the loop of skipWhitespaceAndComments; returns the cursor and sawNewline
RECURSIVE skipLoop(_, _)
skipLoop(t, sawNewline) ==
  IF t.position >= Len(input) THEN [t |-> t, sawNewline |-> sawNewline]
  ELSE LET step(match, d) ==
             IF match # <<>> THEN skipLoop(advance(t, Len(match)), TRUE)
             ELSE IF ~IsSpace(d.r) THEN [t |-> t, sawNewline |-> sawNewline]
             ELSE skipLoop(advance(t, d.size),
                           sawNewline \/ d.r = "\n" \/ d.r = "\r")
       IN  step(commentRegex(t.position), DecodeRuneInString(input, t.position))

skipWhitespaceAndComments(t) == skipLoop(t, FALSE)

-----------------------------------------------------------------------------
(* Numeric literals. *)

\* the literal with its separators left in
RemoveUnderscoresKept(s) == s

\* strings.ReplaceAll(s, "_", "")
RemoveUnderscores(s) == SelectSeq(s, LAMBDA b : b # "_")

RECURSIVE StripLeadingZeros(_)
StripLeadingZeros(ds) ==
  IF Len(ds) > 1 /\ ds[1] = "0" THEN StripLeadingZeros(Tail(ds)) ELSE ds

\* a > b for two decimal numerals of the same length
NumeralGreater(a, b) ==
  \E i \in 1..Len(a) :
     /\ \A j \in 1..(i - 1) : a[j] = b[j]
     /\ DigitValue(a[i]) > DigitValue(b[i])

MaxInt64Numeral ==
  <<"9", "2", "2", "3", "3", "7", "2", "0", "3", "6", "8", "5", "4", "7",
    "7", "5", "8", "0", "7">>

MinInt64Numeral ==
  <<"9", "2", "2", "3", "3", "7", "2", "0", "3", "6", "8", "5", "4", "7",
    "7", "5", "8", "0", "8">>

RECURSIVE NumeralValue(_, _)
NumeralValue(ds, acc) ==
  IF ds = <<>> THEN acc
  ELSE NumeralValue(Tail(ds), acc * 10 + DigitValue(ds[1]))

\* strconv.Atoi on [+-]?\d+ : the value, and err = TRUE when it is out of the
\* range of a 64-bit int
Atoi(s) ==
  LET convert(neg, ds, limit) ==
        IF \/ Len(ds) > Len(limit)
           \/ Len(ds) = Len(limit) /\ NumeralGreater(ds, limit)
        THEN [val |-> 0, err |-> TRUE]
        ELSE [val |-> IF neg THEN 0 - NumeralValue(ds, 0) ELSE NumeralValue(ds, 0),
              err |-> FALSE]
  IN  convert(s[1] = "-",
              StripLeadingZeros(IF s[1] \in {"+", "-"} THEN Tail(s) ELSE s),
              IF s[1] = "-" THEN MinInt64Numeral ELSE MaxInt64Numeral)

\* A 64-bit int as four 16-bit limbs, least significant first, so that
\* parsedRadix*10 + digit wraps as it does in the program.
Limb == 65536

Int64Zero == <<0, 0, 0, 0>>

Int64MulAdd10(v, d) ==
  LET a0 == v[1] * 10 + d
      a1 == v[2] * 10 + (a0 \div Limb)
      a2 == v[3] * 10 + (a1 \div Limb)
      a3 == v[4] * 10 + (a2 \div Limb)
  IN  <<a0 % Limb, a1 % Limb, a2 % Limb, a3 % Limb>>

\* lo <= v <= hi for small non-negative lo, hi
Int64Between(v, lo, hi) ==
  v[2] = 0 /\ v[3] = 0 /\ v[4] = 0 /\ lo <= v[1] /\ v[1] <= hi

\* the loop of the case 'r': parsedRadix over the bytes of radixStr
RECURSIVE parsedRadix(_, _)
parsedRadix(radixStr, acc) ==
  IF radixStr = <<>> THEN acc
  ELSE parsedRadix(Tail(radixStr), Int64MulAdd10(acc, DigitValue(radixStr[1])))

createExceptionToken(t, text, reason) ==
  [t |-> advance(t, Len(text)),
   token |-> NewExceptionToken(text, reason,
                SpanEnd(Position(t.line, t.column + Len(text))))]

\* the tail of parseRadixNumber shared by the cases x, o, b and r
radixTail(t, fullMatch, radixPrefix, base, mantissa0, fraction0, exponent) ==
  LET finish(t1, a) ==
        IF a.err THEN createExceptionToken(t1, fullMatch, <<"invalid literal">>)
        ELSE [t |-> t1,
              token |-> NewNumericToken(fullMatch, radixPrefix, base,
                          RemoveUnderscores(mantissa0),
                          IF fraction0 # <<>> THEN RemoveUnderscores(fraction0)
                          ELSE fraction0,
                          a.val,
                          SpanEnd(Position(t.line, t.column + Len(fullMatch))))]
  IN  finish(advance(t, Len(fullMatch)),
             IF exponent # <<>> THEN Atoi(exponent) ELSE [val |-> 0, err |-> FALSE])

parseRadixNumber(t, match) ==
  LET fullMatch == match[1]
      radixPart == match[2]
      mantissa == match[3]
      fraction == IF match[4] # <<>> THEN Tail(match[4]) ELSE <<>>
      exponent == IF match[5] # <<>> THEN match[5] ELSE <<>>
      lastChar == radixPart[Len(radixPart)]
      radixStr == SubSeq(radixPart, 1, Len(radixPart) - 1)
      ternary(t1, a) ==
        IF a.err
        THEN createExceptionToken(t1, fullMatch, <<"invalid literal: ">> \o exponent)
        ELSE [t |-> t1,
              token |-> NewBalancedTernaryToken(fullMatch,
                          RemoveUnderscores(mantissa),
                          IF fraction # <<>> THEN RemoveUnderscores(fraction)
                          ELSE fraction,
                          a.val,
                          SpanEnd(Position(t.line, t.column + Len(fullMatch))))]
      shape(ok, radixPrefix, base) ==
        [ok |-> ok, radixPrefix |-> radixPrefix, base |-> base]
      withShape(sh) ==
        IF ~sh.ok THEN createExceptionToken(t, fullMatch, <<"invalid literal">>)
        ELSE IF lastChar = "t"
        THEN ternary(advance(t, Len(fullMatch)),
                     IF exponent # <<>> THEN Atoi(exponent)
                     ELSE [val |-> 0, err |-> FALSE])
        ELSE radixTail(t, fullMatch, sh.radixPrefix, sh.base, mantissa, fraction,
                       exponent)
      caseR(parsed) ==
        shape(/\ \A i \in 1..Len(radixStr) : radixStr[i] \in Digits
              /\ Int64Between(parsed, 2, 36),
              radixPart, parsed[1])
  IN  withShape(
        CASE lastChar = "x" -> shape(radixPart = <<"0", "x">>, <<"0", "x">>, 16)
          [] lastChar = "o" -> shape(radixPart = <<"0", "o">>, <<"0", "o">>, 8)
          [] lastChar = "b" -> shape(radixPart = <<"0", "b">>, <<"0", "b">>, 2)
          [] lastChar = "t" -> shape(radixPart = <<"0", "t">>, <<"0", "t">>, 3)
          [] lastChar = "r" -> caseR(parsedRadix(radixStr, Int64Zero))
          [] OTHER -> shape(FALSE, <<>>, 0))

parseDecimalNumber(t, match) ==
  LET fullMatch == match[1]
      fraction0 == IF match[3] # <<>> THEN Tail(match[3]) ELSE <<>>
      exponent == IF match[4] # <<>> THEN match[4] ELSE <<>>
      finish(t1, a) ==
        IF a.err
        THEN createExceptionToken(t1, fullMatch,
               <<"invalid literal: ", "strconv.Atoi: parsing ", "\"">> \o exponent
                 \o <<"\"", ": value out of range">>)
        ELSE [t |-> t1,
              token |-> NewNumericToken(fullMatch, <<>>, 10,
                          RemoveUnderscores(match[2]),
                          IF fraction0 # <<>> THEN RemoveUnderscores(fraction0)
                          ELSE fraction0,
                          a.val,
                          SpanEnd(Position(t.line, t.column + Len(fullMatch))))]
  IN  finish(advance(t, Len(fullMatch)),
             IF exponent # <<>> THEN Atoi(exponent) ELSE [val |-> 0, err |-> FALSE])

\* matchNumeric: token is Nil when neither expression matches
matchNumeric(t) ==
  LET found(r) == [t |-> r.t, token |-> Ptr(r.token)]
      try(radixMatch, decimalMatch) ==
        IF radixMatch # Nil THEN found(parseRadixNumber(t, radixMatch[1]))
        ELSE IF decimalMatch # Nil THEN found(parseDecimalNumber(t, decimalMatch[1]))
        ELSE [t |-> t, token |-> Nil]
  IN  try(radixRegex(t.position), decimalRegex(t.position))

-----------------------------------------------------------------------------
(* The rule tables (rules.go). *)

kw ==
  [Def |-> <<"d", "e", "f">>,
   Arrow |-> <<"=", ">", ">">>,
   End |-> <<"e", "n", "d">>,
   Enddef |-> <<"e", "n", "d", "d", "e", "f">>,
   Let |-> <<"l", "e", "t">>,
   Endlet |-> <<"e", "n", "d", "l", "e", "t">>,
   Switch |-> <<"s", "w", "i", "t", "c", "h">>,
   Case |-> <<"c", "a", "s", "e">>,
   Else |-> <<"e", "l", "s", "e">>,
   Endswitch |-> <<"e", "n", "d", "s", "w", "i", "t", "c", "h">>,
   If |-> <<"i", "f">>,
   Then |-> <<"t", "h", "e", "n">>,
   Endif |-> <<"e", "n", "d", "i", "f">>,
   Ifnot |-> <<"i", "f", "n", "o", "t">>,
   Endifnot |-> <<"e", "n", "d", "i", "f", "n", "o", "t">>,
   Fn |-> <<"f", "n">>,
   Endfn |-> <<"e", "n", "d", "f", "n">>,
   Class |-> <<"c", "l", "a", "s", "s">>,
   Endclass |-> <<"e", "n", "d", "c", "l", "a", "s", "s">>,
   For |-> <<"f", "o", "r">>,
   Do |-> <<"d", "o">>,
   Endfor |-> <<"e", "n", "d", "f", "o", "r">>,
   Try |-> <<"t", "r", "y">>,
   Catch |-> <<"c", "a", "t", "c", "h">>,
   Endtry |-> <<"e", "n", "d", "t", "r", "y">>,
   Transaction |-> <<"t", "r", "a", "n", "s", "a", "c", "t", "i", "o", "n">>,
   Endtransaction |-> <<"e", "n", "d", "t", "r", "a", "n", "s", "a", "c", "t", "i", "o", "n">>,
   Elseif |-> <<"e", "l", "s", "e", "i", "f">>,
   Endcase |-> <<"e", "n", "d", "c", "a", "s", "e">>,
   Elseifnot |-> <<"e", "l", "s", "e", "i", "f", "n", "o", "t">>,
   Return |-> <<"r", "e", "t", "u", "r", "n">>,
   Yield |-> <<"y", "i", "e", "l", "d">>,
   Const |-> <<"c", "o", "n", "s", "t">>,
   Var |-> <<"v", "a", "r">>,
   Val |-> <<"v", "a", "l">>,
   In |-> <<"i", "n">>]

StartTokenData(expecting, closedBy, arity) ==
  [Expecting |-> Slice(expecting), ClosedBy |-> Slice(closedBy), Arity |-> arity]

BridgeTokenData(expecting, inside, arity) ==
  [Expecting |-> Slice(expecting), In |-> Slice(inside), Arity |-> arity]

getDefaultStartTokens ==
  kw.Def :> StartTokenData(<<kw.Arrow>>, <<kw.End, kw.Enddef>>, One) @@
  kw.Let :> StartTokenData(<<>>, <<kw.End, kw.Endlet>>, Many) @@
  kw.Switch :> StartTokenData(<<kw.Case, kw.Else>>, <<kw.End, kw.Endswitch>>, One) @@
  kw.If :> StartTokenData(<<kw.Then>>, <<kw.End, kw.Endif>>, One) @@
  kw.Ifnot :> StartTokenData(<<kw.Then>>, <<kw.End, kw.Endifnot>>, One) @@
  kw.Fn :> StartTokenData(<<kw.Arrow>>, <<kw.End, kw.Endfn>>, One) @@
  kw.Class :> StartTokenData(<<>>, <<kw.End, kw.Endclass>>, One) @@
  kw.For :> StartTokenData(<<kw.Do>>, <<kw.End, kw.Endfor>>, One) @@
  kw.Try :> StartTokenData(<<kw.Catch, kw.Else>>, <<kw.End, kw.Endtry>>, Many) @@
  kw.Transaction :> StartTokenData(<<kw.Catch, kw.Else>>, <<kw.End, kw.Endtransaction>>, Many)

getDefaultBridgeTokens ==
  kw.Case :> BridgeTokenData(<<kw.Then>>,
      <<kw.Switch>>, One) @@
  kw.Arrow :> BridgeTokenData(<<kw.End, kw.Enddef, kw.Endfn>>,
      <<kw.Def>>, Many) @@
  kw.Do :> BridgeTokenData(<<kw.End, kw.Endfor>>,
      <<kw.Def, kw.For>>, Many) @@
  kw.Then :> BridgeTokenData(<<kw.Case, kw.Elseif, kw.Else, kw.End, kw.Endif, kw.Endifnot, kw.Endswitch, kw.Endcase>>,
      <<kw.If, kw.Ifnot, kw.Switch>>, Many) @@
  kw.Elseif :> BridgeTokenData(<<kw.Then>>,
      <<kw.If, kw.Ifnot>>, One) @@
  kw.Elseifnot :> BridgeTokenData(<<kw.Then>>,
      <<kw.If, kw.Ifnot>>, Many) @@
  kw.Else :> BridgeTokenData(<<kw.End, kw.Endif, kw.Endifnot, kw.Endswitch, kw.Endcase>>,
      <<kw.If, kw.Ifnot, kw.Switch>>, Many) @@
  kw.Endcase :> BridgeTokenData(<<kw.End, kw.Endswitch>>,
      <<kw.Switch>>, Zero) @@
  kw.Catch :> BridgeTokenData(<<>>,
      <<kw.Try>>, One)

getDefaultPrefixTokens ==
  {kw.Return, kw.Yield, kw.Const, kw.Var, kw.Val}

getDefaultDelimiterMappings ==
  <<"(">> :> Slice(<< <<")">> >>) @@
  <<"[">> :> Slice(<< <<"]">> >>) @@
  <<"{">> :> Slice(<< <<"}">> >>)

getDefaultWildcardTokens == { <<":">> }

DefaultMarkTokens == { <<",">>, <<";">> }

baseOperatorPrecedence ==
  "." :> 10 @@ "(" :> 20 @@ "[" :> 30 @@ "{" :> 40 @@ "*" :> 50 @@
  "/" :> 60 @@ "%" :> 70 @@ "+" :> 80 @@ "-" :> 90 @@ "<" :> 100 @@
  ">" :> 110 @@ "~" :> 120 @@ "!" :> 130 @@ "&" :> 140 @@ "^" :> 150 @@
  "|" :> 160 @@ "?" :> 170 @@ "=" :> 180 @@ ":" :> 190

\* calculateOperatorPrecedence without the deduction for a repeated glyph
calculateOperatorPrecedenceNoRepeat(operator) ==
  IF Len(operator) = 0 THEN <<0, 0, 0>>
  ELSE LET firstChar == operator[1]
           basePrecedence == IF firstChar \in DOMAIN baseOperatorPrecedence
                             THEN baseOperatorPrecedence[firstChar] ELSE 1000
       IN  IF operator = <<"-">> \/ operator = <<"+">>
           THEN <<basePrecedence, basePrecedence + 2000, 0>>
           ELSE <<0, basePrecedence + 2000, 0>>

\* <<prefix, infix, postfix>>
calculateOperatorPrecedence(operator) ==
  IF Len(operator) = 0 THEN <<0, 0, 0>>
  ELSE LET firstChar == operator[1]
           base0 == IF firstChar \in DOMAIN baseOperatorPrecedence
                    THEN baseOperatorPrecedence[firstChar] ELSE 1000
           basePrecedence == IF Len(operator) > 1 /\ operator[2] = firstChar
                             THEN base0 - 1 ELSE base0
       IN  IF operator = <<"-">> \/ operator = <<"+">>
           THEN <<basePrecedence, basePrecedence + 2000, 0>>
           ELSE <<0, basePrecedence + 2000, 0>>

DelimiterProp(infixPrec, prefix) == [InfixPrec |-> infixPrec, Prefix |-> prefix]

getDefaultDelimiterProperties ==
  <<"(">> :> DelimiterProp(calculateOperatorPrecedence(<<"(">>)[2], TRUE) @@
  <<"[">> :> DelimiterProp(calculateOperatorPrecedence(<<"[">>)[2], TRUE) @@
  <<"{">> :> DelimiterProp(calculateOperatorPrecedence(<<"{">>)[2], TRUE)

DefaultOperators ==
  { <<".">>, <<"*">>, <<"/">>, <<"+">>, <<"-">>, <<"<">>, <<">">>,
    <<"<", "=">>, <<">", "=">>, <<"=", "=">>, <<".", ".", "<">>,
    <<".", ".", "=">>, <<":", "=">>, <<"<", "-">>, <<"<", "-", "-">> }

getDefaultOperatorPrecedences ==
  [op \in DefaultOperators |-> calculateOperatorPrecedence(op)] @@
  (kw.In :> <<0, 3000, 0>>)

CustomRuleType ==
  [Wildcard |-> "CustomWildcard",
   Start |-> "CustomStart",
   End |-> "CustomEnd",
   Bridge |-> "CustomBridge",
   Prefix |-> "CustomPrefix",
   Operator |-> "CustomOperator",
   OpenDelimiter |-> "CustomOpenDelimiter",
   CloseDelimiter |-> "CustomCloseDelimiter",
   Mark |-> "CustomMark"]

CustomRuleEntry(type, data) == [Type |-> type, Data |-> data]

\* the set of the elements of a sequence
Range(seq) == {seq[i] : i \in 1..Len(seq)}

\* the closers named by the values of a map whose values carry a slice
closeDelimiters(r) ==
  UNION {Range(Elems(r.DelimiterMappings[k])) : k \in DOMAIN r.DelimiterMappings}

endTokens(r) ==
  UNION {Range(Elems(r.StartTokens[k].ClosedBy)) : k \in DOMAIN r.StartTokens}

\* the categories addToken is called for, in the order of the calls
definingCategories(r) ==
  <<r.WildcardTokens, DOMAIN r.StartTokens, DOMAIN r.BridgeTokens,
    r.PrefixTokens, r.MarkTokens, DOMAIN r.OperatorPrecedences,
    DOMAIN r.DelimiterMappings>>

\* addToken finds the token already in tokenSources
hasConflict(r) ==
  LET cats == definingCategories(r)
  IN  \E i, j \in 1..Len(cats) : i < j /\ cats[i] \cap cats[j] # {}

\* the entry addToken stores for a token of a defining category
definingEntry(r, token) ==
  IF token \in r.WildcardTokens THEN CustomRuleEntry(CustomRuleType.Wildcard, Nil)
  ELSE IF token \in DOMAIN r.StartTokens
       THEN CustomRuleEntry(CustomRuleType.Start, r.StartTokens[token])
  ELSE IF token \in DOMAIN r.BridgeTokens
       THEN CustomRuleEntry(CustomRuleType.Bridge, r.BridgeTokens[token])
  ELSE IF token \in r.PrefixTokens
       THEN CustomRuleEntry(CustomRuleType.Prefix, Nil)
  ELSE IF token \in r.MarkTokens THEN CustomRuleEntry(CustomRuleType.Mark, Nil)
  ELSE IF token \in DOMAIN r.OperatorPrecedences
       THEN CustomRuleEntry(CustomRuleType.Operator, r.OperatorPrecedences[token])
  ELSE CustomRuleEntry(CustomRuleType.OpenDelimiter,
         [ClosedBy |-> r.DelimiterMappings[token],
          InfixPrec |-> IF token \in DOMAIN r.DelimiterProperties
                        THEN r.DelimiterProperties[token].InfixPrec ELSE 0,
          IsPrefix |-> IF token \in DOMAIN r.DelimiterProperties
                       THEN r.DelimiterProperties[token].Prefix ELSE FALSE])

\* the tables a conflict may leave: the entries of the categories before
\* the one in which addToken fails and, the order of a map being any, those
\* of any of its tokens that no earlier category holds
partialLookups(r) ==
  LET cats == definingCategories(r)
      before(j) == UNION {cats[i] : i \in 1..(j - 1)}
      fails(j) == cats[j] \cap before(j) # {}
      first == CHOOSE j \in 1..Len(cats) :
                 fails(j) /\ \A i \in 1..(j - 1) : ~fails(i)
  IN  {[token \in before(first) \cup some |-> definingEntry(r, token)] :
         some \in SUBSET (cats[first] \ before(first))}

\* BuildTokenLookup: the outcomes of the call, each the rules with
\* TokenLookup set (a map is Nil or Ptr of a function) and the error
BuildTokenLookup(r) ==
  LET cats == definingCategories(r)
      defined == UNION {cats[i] : i \in 1..Len(cats)}
      lookup == [token \in defined \cup closeDelimiters(r) \cup endTokens(r) |->
                   IF token \in endTokens(r) THEN CustomRuleEntry(CustomRuleType.End, Nil)
                   ELSE IF token \in closeDelimiters(r)
                        THEN CustomRuleEntry(CustomRuleType.CloseDelimiter, Nil)
                   ELSE definingEntry(r, token)]
  IN  IF hasConflict(r)
      THEN {[rules |-> [r EXCEPT !.TokenLookup = Ptr(partial)],
             err |-> Ptr("token is defined in two rules")] :
              partial \in partialLookups(r)}
      ELSE {[rules |-> [r EXCEPT !.TokenLookup = Ptr(lookup)], err |-> Nil]}

\* the default tables hold no conflict: the call has one outcome
DefaultRules ==
  (CHOOSE outcome \in BuildTokenLookup(
    [StartTokens |-> getDefaultStartTokens,
     BridgeTokens |-> getDefaultBridgeTokens,
     PrefixTokens |-> getDefaultPrefixTokens,
     DelimiterMappings |-> getDefaultDelimiterMappings,
     DelimiterProperties |-> getDefaultDelimiterProperties,
     WildcardTokens |-> getDefaultWildcardTokens,
     OperatorPrecedences |-> getDefaultOperatorPrecedences,
     MarkTokens |-> DefaultMarkTokens,
     TokenLookup |-> Nil]) : TRUE).rules

\* the rule of a list that a loop of map assignments leaves under a text: the
\* last one
LastRule(list, text) ==
  list[CHOOSE i \in 1..Len(list) :
         /\ list[i].Text = text
         /\ \A j \in (i + 1)..Len(list) : list[j].Text # text]

\* ApplyRulesToDefaults: the rules of BuildTokenLookup, or no rules and its
\* error.  A rules file is a record of lists of rules, an absent category an
\* empty list.
ApplyRulesToDefaults(rf) ==
  LET texts(list) == {list[i].Text : i \in 1..Len(list)}
      applied(tokenizerRules) ==
        IF hasConflict(tokenizerRules)
        THEN [rules |-> Nil, err |-> Ptr("token is defined in two rules")]
        ELSE CHOOSE outcome \in BuildTokenLookup(tokenizerRules) : TRUE
  IN  applied(
        [DelimiterMappings |->
           IF Len(rf.Bracket) > 0
           THEN [k \in texts(rf.Bracket) |-> LastRule(rf.Bracket, k).ClosedBy]
           ELSE getDefaultDelimiterMappings,
         DelimiterProperties |->
           IF Len(rf.Bracket) > 0
           THEN [k \in texts(rf.Bracket) |->
                   DelimiterProp(LastRule(rf.Bracket, k).InfixPrec,
                                 LastRule(rf.Bracket, k).Prefix)]
           ELSE getDefaultDelimiterProperties,
         PrefixTokens |->
           IF Len(rf.Prefix) > 0 THEN texts(rf.Prefix) ELSE getDefaultPrefixTokens,
         MarkTokens |->
           IF Len(rf.Mark) > 0 THEN texts(rf.Mark) ELSE DefaultMarkTokens,
         StartTokens |->
           IF Len(rf.Start) > 0
           THEN [k \in texts(rf.Start) |->
                   [Expecting |-> LastRule(rf.Start, k).Expecting,
                    ClosedBy |-> LastRule(rf.Start, k).ClosedBy,
                    Arity |-> Zero]]
           ELSE getDefaultStartTokens,
         BridgeTokens |->
           IF Len(rf.Bridge) > 0
           THEN [k \in texts(rf.Bridge) |->
                   [Expecting |-> LastRule(rf.Bridge, k).Expecting,
                    In |-> LastRule(rf.Bridge, k).In,
                    Arity |-> Zero]]
           ELSE getDefaultBridgeTokens,
         WildcardTokens |->
           IF Len(rf.Wildcard) > 0 THEN texts(rf.Wildcard)
           ELSE getDefaultWildcardTokens,
         OperatorPrecedences |->
           [k \in texts(rf.Operator) |-> LastRule(rf.Operator, k).Precedence]
             @@ getDefaultOperatorPrecedences,
         TokenLookup |-> Nil])

-----------------------------------------------------------------------------
(* String literals.  A matcher returns the cursor, the token (Nil when     *)
(* there is none) and the error (Nil when there is none).                  *)

Errorf(msg, l, c) == Ptr([msg |-> msg, line |-> l, col |-> c])

Result(t, token, error) == [t |-> t, token |-> token, err |-> error]

isOpeningQuoteChar(r) == r \in {"'", "\"", BACKTICK, LAQUO}

isClosingQuoteChar(r) == r \in {"'", "\"", BACKTICK, RAQUO}

getMatchingCloseQuote(openingQuote) ==
  IF openingQuote = LAQUO THEN RAQUO ELSE openingQuote

matches(open, close) ==
  \/ open = "(" /\ close = ")"
  \/ open = "[" /\ close = "]"
  \/ open = "{" /\ close = "}"

markPosition(t) ==
  [t EXCEPT !.markStack =
     Append(@, [position |-> t.position, line |-> t.line, column |-> t.column])]

resetPosition(t) ==
  LET restore(m) == Cursor(m.position, m.line, m.column,
                           SubSeq(t.markStack, 1, Len(t.markStack) - 1))
  IN  IF Len(t.markStack) = 0 THEN t ELSE restore(t.markStack[Len(t.markStack)])

\* the cursor without the mark, and the text from the mark to the position
popMark(t) ==
  IF Len(t.markStack) = 0 THEN [t |-> t, text |-> <<>>]
  ELSE [t |-> [t EXCEPT !.markStack = SubSeq(@, 1, Len(@) - 1)],
        text |-> Slice2(input, t.markStack[Len(t.markStack)].position, t.position)]

\* peekN(n): the n-th rune from the position, n >= 1
RECURSIVE peekNFrom(_, _)
peekNFrom(p, n) ==
  LET nth(d) == IF d.r = RuneError THEN [r |-> "NUL", ok |-> FALSE]
                ELSE IF n = 1 THEN [r |-> d.r, ok |-> TRUE]
                ELSE peekNFrom(p + d.size, n - 1)
  IN  IF p >= Len(input) THEN [r |-> "NUL", ok |-> FALSE]
      ELSE nth(DecodeRuneInString(input, p))

peekN(t, n) == peekNFrom(t.position, n)

tryPeekTripleQuotes(t, is_opening) ==
  LET three(p1, p2, p3) ==
        IF ~p1.ok THEN [r |-> "NUL", ok |-> FALSE]
        ELSE IF is_opening /\ ~isOpeningQuoteChar(p1.r) THEN [r |-> "NUL", ok |-> FALSE]
        ELSE IF ~is_opening /\ ~isClosingQuoteChar(p1.r) THEN [r |-> "NUL", ok |-> FALSE]
        ELSE IF ~(p2.ok /\ p3.ok /\ p2.r = p1.r /\ p3.r = p1.r)
             THEN [r |-> "NUL", ok |-> FALSE]
        ELSE [r |-> p1.r, ok |-> TRUE]
  IN  three(peek(t), peekN(t, 2), peekN(t, 3))

tryPeekTripleOpeningQuotes(t) == tryPeekTripleQuotes(t, TRUE)

tryReadTripleQuotes(t, is_opening) ==
  LET read(p) == [t |-> IF p.ok THEN consume(consume(consume(t).t).t).t ELSE t,
                  r |-> p.r, ok |-> p.ok]
  IN  read(tryPeekTripleQuotes(t, is_opening))

tryReadTripleClosingQuotes(t) == tryReadTripleQuotes(t, FALSE)

tryReadTripleOpeningQuotes(t) == tryReadTripleQuotes(t, TRUE)

tryConsumeRune(t, char) ==
  LET try(p) == IF p.ok /\ p.r = char THEN consume(t).t ELSE t
  IN  try(peek(t))

tryConsumeNewline(t) ==
  LET lineFeed(t1) ==
        IF hasMoreInput(t1) /\ input[t1.position + 1] = "\n" THEN consume(t1).t ELSE t1
  IN  IF hasMoreInput(t) /\ input[t.position + 1] = "\r" THEN lineFeed(consume(t).t)
      ELSE lineFeed(t)

\* the cursor after the line, and the text of the line
RECURSIVE readRestOfLineLoop(_, _)
readRestOfLineLoop(t, text) ==
  LET more(c) == readRestOfLineLoop(c.t, text \o RuneBytes(c.r))
  IN  IF ~hasMoreInput(t) \/ peek(t).r \in {"\n", "\r"}
      THEN [t |-> tryConsumeNewline(t), text |-> text]
      ELSE more(consume(t))

readRestOfLine(t) == readRestOfLineLoop(t, <<>>)

RECURSIVE consumeN(_, _)
consumeN(t, n) ==
  IF n <= 0 \/ ~hasMoreInput(t) THEN t ELSE consumeN(consume(t).t, n - 1)

HasPrefix(s, p, prefix) ==
  /\ p + Len(prefix) <= Len(s)
  /\ \A i \in 1..Len(prefix) : s[p + i] = prefix[i]

\* the cursor, and whether the text was consumed
tryConsumeText(t, text) ==
  IF HasPrefix(input, t.position, text)
  THEN [t |-> consumeN(t, Len(text)), ok |-> TRUE]
  ELSE [t |-> t, ok |-> FALSE]

RECURSIVE skipSpacesUpToNewline(_)
skipSpacesUpToNewline(t) ==
  LET skip(p) == IF ~p.ok \/ p.r = "\n" \/ p.r = "\r" THEN t
                 ELSE IF ~IsSpace(p.r) THEN t
                 ELSE skipSpacesUpToNewline(consume(t).t)
  IN  IF ~hasMoreInput(t) THEN t ELSE skip(peek(t))

consumeTripleClosingQuotes(t, quote) ==
  LET check(p) ==
        IF ~p.ok
        THEN [t |-> p.t, err |-> Errorf("missing triple quotes", p.t.line, p.t.column)]
        ELSE IF p.r # quote
        THEN [t |-> p.t, err |-> Errorf("expected other quote", p.t.line, p.t.column)]
        ELSE [t |-> p.t, err |-> Nil]
  IN  check(tryReadTripleClosingQuotes(t))

\* the runes of a text
RECURSIVE Runes(_, _)
Runes(text, p) ==
  LET from(d) == <<d.r>> \o Runes(text, p + d.size)
  IN  IF p >= Len(text) THEN <<>> ELSE from(DecodeRuneInString(text, p))

\* (match, indent): the text is whitespace followed by three quotes
RECURSIVE whitespaceThen3Quotes(_, _, _, _, _)
whitespaceThen3Quotes(rs, quote, whitespace, count, indent) ==
  IF rs = <<>> THEN [match |-> FALSE, indent |-> <<>>]
  ELSE LET r == rs[1]
       IN  IF whitespace
           THEN IF IsSpace(r)
                THEN whitespaceThen3Quotes(Tail(rs), quote, TRUE, count,
                                           indent \o RuneBytes(r))
                ELSE IF r = quote
                THEN whitespaceThen3Quotes(Tail(rs), quote, FALSE, count + 1, indent)
                ELSE [match |-> FALSE, indent |-> <<>>]
           ELSE IF r = quote
                THEN IF count + 1 >= 3 THEN [match |-> TRUE, indent |-> indent]
                     ELSE whitespaceThen3Quotes(Tail(rs), quote, FALSE, count + 1, indent)
                ELSE [match |-> FALSE, indent |-> <<>>]

textIsWhitespaceFollowedBy3Quotes(text, quote) ==
  IF Len(text) < 3 THEN [match |-> FALSE, indent |-> <<>>]
  ELSE whitespaceThen3Quotes(Runes(text, 0), quote, TRUE, 0, <<>>)

HexDigitChars ==
  Digits \cup {"A", "B", "C", "D", "E", "F"} \cup {"a", "b", "c", "d", "e", "f"}

UpperHex(b) ==
  CASE b = "a" -> "A" [] b = "b" -> "B" [] b = "c" -> "C"
    [] b = "d" -> "D" [] b = "e" -> "E" [] b = "f" -> "F" [] OTHER -> b

\* strconv.ParseInt(code, 16, 32) succeeds: an optional sign, then hex digits
ParseHexOk(code) ==
  LET ds == IF code # <<>> /\ code[1] \in {"+", "-"} THEN Tail(code) ELSE code
  IN  ds # <<>> /\ \A i \in 1..Len(ds) : ds[i] \in HexDigitChars

\* string(rune(n)) for the value n of code: the scalar is written as one
\* symbolic unit "U+" followed by its hex digits; a negative value and a
\* surrogate (D800..DFFF) are U+FFFD
decodeUnicodeEscape(code) ==
  LET ds == IF code[1] \in {"+", "-"} THEN <<"0">> \o Tail(code) ELSE code
      isZero == \A i \in 1..Len(ds) : ds[i] = "0"
      isSurrogate ==
        /\ UpperHex(ds[1]) = "D"
        /\ UpperHex(ds[2]) \in {"8", "9", "A", "B", "C", "D", "E", "F"}
  IN  IF (code[1] = "-" /\ ~isZero) \/ isSurrogate THEN <<"U+FFFD">>
      ELSE <<"U+" \o UpperHex(ds[1]) \o UpperHex(ds[2]) \o UpperHex(ds[3])
                 \o UpperHex(ds[4])>>

\* the loop of readUnicodeEscape: position moves, line and column do not
RECURSIVE readUnicodeLoop(_, _, _)
readUnicodeLoop(t, n, code) ==
  LET step(d) ==
        IF d.r = RuneError THEN [t |-> t, code |-> code]
        ELSE readUnicodeLoop([t EXCEPT !.position = @ + d.size], n - 1,
                             code \o RuneBytes(d.r))
  IN  IF n = 0 \/ ~hasMoreInput(t) THEN [t |-> t, code |-> code]
      ELSE step(DecodeRuneInString(input, t.position))

readUnicodeEscape(t) ==
  LET decoded(l) ==
        IF Len(l.code) = 4 /\ ParseHexOk(l.code)
        THEN [t |-> l.t, value |-> decodeUnicodeEscape(l.code)]
        ELSE [t |-> l.t, value |-> <<"\\", "u">> \o l.code]
  IN  decoded(readUnicodeLoop(t, 4, <<>>))

\* the cursor and the bytes the escape stands for
handleEscapeSequence(t) ==
  LET escape(t1, r) ==
        CASE r = "b" -> [t |-> t1, value |-> <<"BS">>]
          [] r = "f" -> [t |-> t1, value |-> <<"\f">>]
          [] r = "n" -> [t |-> t1, value |-> <<"\n">>]
          [] r = "r" -> [t |-> t1, value |-> <<"\r">>]
          [] r = "t" -> [t |-> t1, value |-> <<"\t">>]
          [] r \in {"\\", "/", "\"", "'", BACKTICK, RAQUO} ->
               [t |-> t1, value |-> RuneBytes(r)]
          [] r = "u" -> readUnicodeEscape(t1)
          [] r = "_" -> [t |-> t1, value |-> <<>>]
          [] OTHER -> [t |-> t1, value |-> <<"\\">> \o RuneBytes(r)]
      consumed(c) == escape(c.t, c.r)
  IN  consumed(consume(t))

RECURSIVE readStringInterpolation(_)
RECURSIVE interpolationLoop(_, _, _, _)

\* the for loop of readStringInterpolation: state 0 is inside the
\* expression, state 1 inside a string; span is the span of the token
interpolationLoop(t, state, stack, span) ==
  LET closed(m, t1) ==
        Result(m.t,
               Ptr(NewExpressionToken(m.text,
                     Span(span.Start, Position(t1.line, t1.column)))),
               Nil)
      nested(n) ==
        IF n.err # Nil THEN Result(n.t, Nil, n.err)
        ELSE interpolationLoop(n.t, 1, stack, span)
      step(t1, r) ==
        IF state = 0
        THEN CASE r = "\\" ->
                    interpolationLoop(handleEscapeSequence(t1).t, 0, stack, span)
               [] r \in {"(", "[", "{"} ->
                    interpolationLoop(t1, 0, Append(stack, r), span)
               [] r \in {")", "]", "}"} ->
                    IF Len(stack) > 0 /\ matches(stack[Len(stack)], r)
                    THEN IF Len(stack) = 1
                         THEN closed(popMark(t1), t1)
                         ELSE interpolationLoop(t1, 0, SubSeq(stack, 1, Len(stack) - 1), span)
                    ELSE Result(t1, Nil,
                           Errorf("mismatched bracket", span.Start.Line, span.Start.Col))
               [] r \in {"\"", "'", BACKTICK, LAQUO} ->
                    interpolationLoop(t1, 1, Append(stack, getMatchingCloseQuote(r)), span)
               [] r \in {"r", "\n"} ->
                    Result(t1, Nil, Errorf("line break in interpolation", t1.line, t1.column))
               [] OTHER -> interpolationLoop(t1, 0, stack, span)
        ELSE CASE r = "\\" ->
                    IF hasMoreInput(t1)
                    THEN IF peek(t1).r \in {"(", "[", "{"}
                         THEN nested(readStringInterpolation(t1))
                         ELSE interpolationLoop(handleEscapeSequence(t1).t, 1, stack, span)
                    ELSE Result(t1, Nil,
                           Errorf("unterminated escape sequence", span.Start.Line, span.Start.Col))
               [] r # "\\" /\ r = stack[Len(stack)] ->
                    interpolationLoop(t1, 0, SubSeq(stack, 1, Len(stack) - 1), span)
               [] OTHER -> interpolationLoop(t1, 1, stack, span)
      consumed(c) == step(c.t, c.r)
  IN  IF ~hasMoreInput(t)
      THEN Result(t, Nil, Errorf("unterminated interpolation", span.Start.Line, span.Start.Col))
      ELSE consumed(consume(t))

readStringInterpolation(t) ==
  interpolationLoop(consume(markPosition(t)).t, 0, <<consume(markPosition(t)).r>>,
                    Span(Position(t.line, t.column), Position(-1, -1)))

\* the for loop of readString; on break the result carries the loop variables
RECURSIVE readStringLoop(_, _, _, _, _, _, _, _)
readStringLoop(t, unquoted, quote, value, toks, currPosition, currSpan, start) ==
  LET stop(tb, e, v, ts) ==
        [t |-> tb, err |-> e, value |-> v, toks |-> ts,
         currPosition |-> currPosition, currSpan |-> currSpan]
      interpolated(toks1, ip) ==
        IF ip.err # Nil THEN stop(ip.t, ip.err, <<>>, toks1)
        ELSE readStringLoop(ip.t, unquoted, quote, <<>>,
               Append(toks1, ip.token[1]), ip.t.position,
               Span(Position(ip.t.line, ip.t.column), Position(-1, -1)),
               start)
      escaped(h) ==
        readStringLoop(h.t, unquoted, quote, value \o h.value, toks,
                       currPosition, currSpan, start)
      beforeBackSlash == Position(t.line, t.column)
      r == consume(t).r
      t1 == consume(t).t
      current ==
        SetQuote(
          NewStringToken(Slice2(input, currPosition, t1.position), value,
                         [currSpan EXCEPT !.End = beforeBackSlash]),
          quote)
  IN  IF ~hasMoreInput(t)
      THEN stop(t, Errorf("unterminated string", start.Line, start.Col), value, toks)
      ELSE IF ~unquoted /\ r = quote THEN stop(t1, Nil, value, toks)
      ELSE IF r = "\\" /\ hasMoreInput(t1)
      THEN IF peek(t1).r \in {"(", "[", "{"}
           THEN interpolated(IF Len(value) > 0 THEN Append(toks, current) ELSE toks,
                             readStringInterpolation(t1))
           ELSE escaped(handleEscapeSequence(t1))
      ELSE IF r = "\n" \/ r = "\r"
      THEN IF unquoted
           THEN stop(IF r = "\r" THEN tryConsumeRune(t1, "\n") ELSE t1, Nil,
                     value, toks)
           ELSE stop(t1, Errorf("line break in string", start.Line, start.Col),
                     value, toks)
      ELSE readStringLoop(t1, unquoted, quote, value \o RuneBytes(r), toks,
                          currPosition, currSpan, start)

readString(t, unquoted, default_quote) ==
  LET start == Position(t.line, t.column)
      quote == IF ~unquoted THEN getMatchingCloseQuote(consume(t).r)
               ELSE default_quote
      compoundToken(te, text, interpolationTokens) ==
        [SetQuote(NewInterpolatedStringToken(text, interpolationTokens,
                    Span(start, Position(te.line, te.column))), quote)
           EXCEPT !.Type = TokenType.InterpolatedString]
      result(te, text, interpolationTokens) ==
        IF /\ Len(interpolationTokens) = 1
           /\ interpolationTokens[1].Type = TokenType.StringLiteral
        THEN Result(te, Ptr([interpolationTokens[1] EXCEPT !.Text = text]), Nil)
        ELSE Result(te, Ptr(compoundToken(te, text, interpolationTokens)), Nil)
      last(l) ==
        SetQuote(
          NewStringToken(Slice2(input, l.currPosition, l.t.position), l.value,
                         [l.currSpan EXCEPT !.End = Position(l.t.line, l.t.column)]),
          quote)
      finish(l) ==
        IF l.err # Nil THEN Result(l.t, Nil, l.err)
        ELSE result(l.t, Slice2(input, t.position, l.t.position),
                    IF Len(l.value) > 0 THEN Append(l.toks, last(l)) ELSE l.toks)
  IN  finish(readStringLoop(IF ~unquoted THEN consume(t).t ELSE t, unquoted, quote,
                            <<>>, <<>>, t.position, Span(start, Position(-1, -1)),
                            start))

\* the for loop of readRawString
RECURSIVE readRawStringLoop(_, _, _, _, _)
readRawStringLoop(t, unquoted, quote, text, start) ==
  LET step(t1, r) ==
        IF r = quote THEN [t |-> t1, err |-> Nil, text |-> text]
        ELSE IF r = "\n" \/ r = "\r"
        THEN IF unquoted
             THEN [t |-> IF r = "\r" THEN tryConsumeRune(t1, "\n") ELSE t1,
                   err |-> Nil, text |-> text]
             ELSE [t |-> t1,
                   err |-> Errorf("line break in raw string", start.Line, start.Col),
                   text |-> text]
        ELSE readRawStringLoop(t1, unquoted, quote, text \o RuneBytes(r), start)
      consumed(c) == step(c.t, c.r)
  IN  IF ~hasMoreInput(t)
      THEN [t |-> t, err |-> Errorf("unterminated raw string", start.Line, start.Col),
            text |-> text]
      ELSE consumed(consume(t))

readRawString(t, unquoted, default_quote) ==
  LET start == Position(t.line, t.column)
      quote == IF ~unquoted THEN getMatchingCloseQuote(consume(t).r)
               ELSE default_quote
      finish(l) ==
        IF l.err # Nil THEN Result(l.t, Nil, l.err)
        ELSE Result(l.t,
               Ptr(SetQuote(NewStringToken(Slice2(input, t.position, l.t.position),
                              l.text, Span(start, Position(l.t.line, l.t.column))),
                            quote)),
               Nil)
  IN  finish(readRawStringLoop(IF ~unquoted THEN consume(t).t ELSE t, unquoted,
                               quote, <<>>, start))

RECURSIVE takeTagTextLoop(_, _)
takeTagTextLoop(t, text) ==
  LET step(r) ==
        IF ~(IsLetter(r) \/ IsDigit(r) \/ r = "_") THEN [t |-> t, text |-> text]
        ELSE takeTagTextLoop(consume(t).t, text \o RuneBytes(r))
  IN  IF ~hasMoreInput(t) THEN [t |-> t, text |-> text]
      ELSE step(peek(t).r)

takeTagText(t) == takeTagTextLoop(t, <<>>)

\* strings.TrimSpace, on the runes of a text
RECURSIVE TrimLeft(_)
TrimLeft(rs) == IF rs # <<>> /\ IsSpace(rs[1]) THEN TrimLeft(Tail(rs)) ELSE rs

RECURSIVE TrimRight(_)
TrimRight(rs) ==
  IF rs # <<>> /\ IsSpace(rs[Len(rs)]) THEN TrimRight(SubSeq(rs, 1, Len(rs) - 1)) ELSE rs

RECURSIVE BytesOf(_)
BytesOf(rs) == IF rs = <<>> THEN <<>> ELSE RuneBytes(rs[1]) \o BytesOf(Tail(rs))

TrimSpace(text) == BytesOf(TrimRight(TrimLeft(Runes(text, 0))))

\* the loop of readSpecifier
RECURSIVE readSpecifierLoop(_, _)
readSpecifierLoop(t, text) ==
  LET step(c) ==
        IF c.r = "\n" THEN [t |-> c.t, text |-> text]
        ELSE IF c.r = "\r" THEN [t |-> tryConsumeRune(c.t, "\n"), text |-> text]
        ELSE readSpecifierLoop(c.t, text \o RuneBytes(c.r))
  IN  IF ~hasMoreInput(t) THEN [t |-> t, text |-> text]
      ELSE step(consume(t))

\* the cursor, the specifier and the error
readSpecifier(t) ==
  LET wellFormed(strtext) ==
        /\ strtext[1] \in IdentStart
        /\ \A i \in 2..Len(strtext) : strtext[i] \in IdentChars
      check(te, strtext) ==
        IF Contains(strtext, " ")
        THEN [t |-> te, specifier |-> <<>>,
              err |-> Errorf("spaces inside code-fence specifier", te.line, te.column)]
        ELSE IF Len(strtext) > 0 /\ ~wellFormed(strtext)
        THEN [t |-> te, specifier |-> <<>>,
              err |-> Errorf("invalid code-fence specifier", te.line, te.column)]
        ELSE [t |-> te, specifier |-> strtext, err |-> Nil]
      trimmed(l) == check(l.t, TrimSpace(l.text))
  IN  trimmed(readSpecifierLoop(t, <<>>))

\* the loop of findClosingIndent that reads the lines up to the closing line
RECURSIVE closingLineLoop(_, _, _)
closingLineLoop(t, closing_quote, lines) ==
  LET test(l, m) ==
        IF m.match
        THEN [t |-> l.t, match |-> TRUE, closingIndent |-> m.indent, lines |-> lines]
        ELSE closingLineLoop(l.t, closing_quote, Append(lines, l.text))
      read(l) == test(l, textIsWhitespaceFollowedBy3Quotes(l.text, closing_quote))
  IN  IF ~hasMoreInput(t)
      THEN [t |-> t, match |-> FALSE, closingIndent |-> <<>>, lines |-> lines]
      ELSE read(readRestOfLine(t))

\* the cursor, the closing quote, the closing indent, the specifier, the
\* number of content lines and the error
findClosingIndent(t) ==
  LET failed(tc, e) == [t |-> tc, quote |-> "NUL", closingIndent |-> <<>>,
                        specifier |-> <<>>, nlines |-> 0, err |-> e]
      firstBad(bad) == CHOOSE i \in bad : \A j \in bad : i <= j
      verdict(closing_quote, s, start, l, bad) ==
        IF ~l.match
        THEN failed(l.t, Errorf("closing triple quote not found", l.t.line, l.t.column))
        ELSE IF bad # {}
        THEN failed(l.t, Errorf("not indented consistently with the closing triple quote",
                                start.Line + (firstBad(bad) - 1), start.Col))
        ELSE [t |-> resetPosition(l.t), quote |-> closing_quote,
              closingIndent |-> l.closingIndent, specifier |-> s.specifier,
              nlines |-> Len(l.lines), err |-> Nil]
      indented(closing_quote, s, l) ==
        verdict(closing_quote, s, Position(s.t.line, s.t.column), l,
                {i \in 1..Len(l.lines) :
                   l.lines[i] # <<>> /\ ~HasPrefix(l.lines[i], 0, l.closingIndent)})
      specified(closing_quote, s) ==
        IF s.err # Nil THEN failed(s.t, s.err)
        ELSE indented(closing_quote, s, closingLineLoop(s.t, closing_quote, <<>>))
      opened(q) ==
        IF ~q.ok
        THEN failed(q.t, Errorf("malformed opening triple quotes", q.t.line, q.t.column))
        ELSE specified(getMatchingCloseQuote(q.r), readSpecifier(q.t))
  IN  opened(tryReadTripleOpeningQuotes(markPosition(t)))

\* the loop of readMultilineString over the content lines
RECURSIVE multilineLoop(_, _, _, _, _, _)
multilineLoop(t, n, rawFlag, closingIndent, openingQuote, subTokens) ==
  LET next(tn, token) ==
        multilineLoop(tn, n - 1, rawFlag, closingIndent, openingQuote,
                      Append(subTokens, token))
      empty == SetQuote(NewStringToken(<<>>, <<>>,
                  Span(Position(t.line, t.column), Position(t.line, t.column))),
                  openingQuote)
      content(r) ==
        IF r.err # Nil THEN [t |-> r.t, subTokens |-> subTokens, err |-> r.err]
        ELSE next(r.t, r.token[1])
  IN  IF n = 0 THEN [t |-> t, subTokens |-> subTokens, err |-> Nil]
      ELSE IF tryConsumeText(t, closingIndent).ok
      THEN content(IF rawFlag
                   THEN readRawString(tryConsumeText(t, closingIndent).t, TRUE,
                                      openingQuote)
                   ELSE readString(tryConsumeText(t, closingIndent).t, TRUE,
                                   openingQuote))
      ELSE next(t, empty)

readMultilineString(t, rawFlag) ==
  LET start == Position(t.line, t.column)
      token(f, l, te) ==
        [SetQuote(
           NewMultiLineStringToken(Slice2(input, t.position, te.position), <<>>,
                                   Span(start, Position(te.line, te.column))),
           f.quote)
         EXCEPT !.Specifier = Ptr(f.specifier), !.Subtokens = l.subTokens]
      closed(f, l, q) ==
        IF q.err # Nil THEN Result(q.t, Nil, q.err)
        ELSE Result(q.t, Ptr(token(f, l, q.t)), Nil)
      content(f, l) ==
        IF l.err # Nil THEN Result(l.t, Nil, l.err)
        ELSE closed(f, l, consumeTripleClosingQuotes(skipSpacesUpToNewline(l.t),
                                                     getMatchingCloseQuote(f.quote)))
      found(f) ==
        IF f.err # Nil THEN Result(f.t, Nil, f.err)
        ELSE content(f, multilineLoop(readRestOfLine(f.t).t, f.nlines, rawFlag,
                                      f.closingIndent, f.quote, <<>>))
  IN  found(findClosingIndent(t))

matchRawString(t) ==
  LET t0 == consume(t).t
      tag == IF peek(t0).ok /\ (IsLetter(peek(t0).r) \/ peek(t0).r = "_")
             THEN takeTagText(t0)
             ELSE [t |-> t0, text |-> <<>>]
      tagged(r, tagText) ==
        IF r.err # Nil THEN r
        ELSE IF /\ r.token[1].Specifier # Nil
                /\ tagText # <<>>
                /\ r.token[1].Specifier[1] # tagText
        THEN Result(r.t, Nil,
               Errorf("tag specifier does not match existing specifier",
                      r.t.line, r.t.column))
        ELSE IF tagText # <<>>
        THEN Result(r.t, Ptr([r.token[1] EXCEPT !.Specifier = Ptr(tagText)]), Nil)
        ELSE r
  IN  IF peek(tag.t).ok /\ isOpeningQuoteChar(peek(tag.t).r)
      THEN tagged(IF tryPeekTripleOpeningQuotes(tag.t).ok
                  THEN readMultilineString(tag.t, TRUE)
                  ELSE readRawString(tag.t, FALSE, peek(tag.t).r),
                  tag.text)
      ELSE Result(tag.t, Nil, Errorf("expected string after @", tag.t.line, tag.t.column))

matchString(t) ==
  IF t.position >= Len(input) THEN Result(t, Nil, Nil)
  ELSE IF ~peek(t).ok \/ ~isOpeningQuoteChar(peek(t).r)
  THEN IF peek(t).r = "@" THEN matchRawString(t) ELSE Result(t, Nil, Nil)
  ELSE IF tryPeekTripleOpeningQuotes(t).ok THEN readMultilineString(t, FALSE)
  ELSE readString(t, FALSE, peek(t).r)

-----------------------------------------------------------------------------
(* The classifier and the driver (tokenizer.go). *)

\* (is_identifier, text, ok)
nextIdOrOp(t) ==
  LET pick(identifier, operator) ==
        IF identifier # <<>>
        THEN [is_identifier |-> TRUE, text |-> identifier, ok |-> TRUE]
        ELSE IF operator # <<>>
        THEN [is_identifier |-> FALSE, text |-> operator, ok |-> TRUE]
        ELSE IF t.position < Len(input)
        THEN [is_identifier |-> FALSE,
              text |-> RuneBytes(DecodeRuneInString(input, t.position).r), ok |-> TRUE]
        ELSE [is_identifier |-> FALSE, text |-> <<>>, ok |-> FALSE]
  IN  pick(identifierRegex(t.position), operatorRegex(t.position))

\* a variant that overwrites the top frame of a non-empty stack
pushExpectingOver(stack, expected) ==
  IF Len(stack) > 0 THEN [stack EXCEPT ![Len(stack)] = expected]
  ELSE Append(stack, expected)

pushExpecting(stack, expected) == Append(stack, expected)

\* a variant in which an End token pops nothing
popExpectingKept(stack) == stack

popExpecting(stack) ==
  IF Len(stack) > 0 THEN SubSeq(stack, 1, Len(stack) - 1) ELSE stack

\* a variant that pushes a frame instead of replacing the top one
replaceExpectingPushed(stack, expected) == Append(stack, expected)

replaceExpecting(stack, expected) ==
  IF Len(stack) > 0 THEN [stack EXCEPT ![Len(stack)] = expected] ELSE stack

\* a variant that looks below an empty top frame for the nearest frame
\* that expects something
getCurrentlyExpectedEnclosing(stack) ==
  LET nonEmpty == {i \in 1..Len(stack) : SliceLen(stack[i]) > 0}
  IN  IF nonEmpty = {} THEN Nil
      ELSE stack[CHOOSE i \in nonEmpty : \A j \in nonEmpty : j <= i]

\* Nil when the stack is empty
getCurrentlyExpected(stack) ==
  IF Len(stack) = 0 THEN Nil ELSE stack[Len(stack)]

\* the case CustomRuleType.Wildcard of matchCustomRules
matchWildcard(t, stack, text, span) ==
  LET bridge(expectedText, bridgeData) ==
        NewWildcardBridgeToken(text, expectedText, bridgeData.Expecting,
                               bridgeData.In, bridgeData.Arity, span)
      named(expectedText) ==
        IF expectedText \in DOMAIN rules.BridgeTokens
        THEN bridge(expectedText, rules.BridgeTokens[expectedText])
        ELSE NewToken(text, TokenType.Unclassified, span)
      decide(expected) ==
        IF SliceLen(expected) > 0 THEN named(Elems(expected)[1])
        ELSE NewToken(text, TokenType.Unclassified, span)
  IN  decide(getCurrentlyExpected(stack))

\* the token a rule entry makes of the text (the switch of matchCustomRules)
ruleToken(t, stack, entry, text, span) ==
  CASE entry.Type = CustomRuleType.Wildcard -> matchWildcard(t, stack, text, span)
    [] entry.Type = CustomRuleType.Start ->
         NewStartToken(text, entry.Data.Expecting, entry.Data.ClosedBy, span,
                       entry.Data.Arity)
    [] entry.Type = CustomRuleType.End -> NewToken(text, TokenType.End, span)
    [] entry.Type = CustomRuleType.Bridge ->
         NewStmntBridgeToken(text, entry.Data.Expecting, entry.Data.In, span)
    [] entry.Type = CustomRuleType.Prefix ->
         NewPrefixToken(text, TokenType.Prefix, span, entry.Data.Arity)
    [] entry.Type = CustomRuleType.Mark -> NewToken(text, TokenType.Mark, span)
    [] entry.Type = CustomRuleType.Operator ->
         NewOperatorToken(text, entry.Data[1], entry.Data[2], entry.Data[3], span)
    [] entry.Type = CustomRuleType.OpenDelimiter ->
         NewDelimiterToken(text, entry.Data.ClosedBy, entry.Data.InfixPrec,
                           entry.Data.IsPrefix, span)
    [] entry.Type = CustomRuleType.CloseDelimiter -> NewToken(text, TokenType.CloseDelimiter, span)

\* entry.Data.(PrefixTokenData) panics when the entry holds no data
assertionPanics(entry) ==
  entry.Type = CustomRuleType.Prefix /\ entry.Data = Nil

\* token is Nil when no rule applies, as it is without rules or without a
\* lookup table; panic tells that the call panicked
matchCustomRules(t, stack) ==
  LET classify(n, text, span) ==
        IF rules = Nil \/ rules.TokenLookup = Nil
        THEN [t |-> t, token |-> Nil, panic |-> FALSE]
        ELSE IF ~n.ok THEN [t |-> t, token |-> Nil, panic |-> FALSE]
        ELSE IF text \notin DOMAIN rules.TokenLookup[1]
        THEN IF n.is_identifier
             THEN [t |-> advance(t, Len(text)),
                   token |-> Ptr(NewToken(text, TokenType.Variable, span)),
                   panic |-> FALSE]
             ELSE [t |-> t, token |-> Nil, panic |-> FALSE]
        ELSE IF assertionPanics(rules.TokenLookup[1][text])
        THEN [t |-> t, token |-> Nil, panic |-> TRUE]
        ELSE [t |-> advance(t, Len(text)),
              token |-> Ptr(ruleToken(t, stack, rules.TokenLookup[1][text], text,
                                      span)),
              panic |-> FALSE]
      found(n) ==
        classify(n, n.text, SpanEnd(Position(t.line, t.column + Len(n.text))))
  IN  found(nextIdOrOp(t))

\* the switch of addTokenAndManageStack on the type of the appended token
manageStack(stack, token) ==
  CASE token.Type = TokenType.Start ->
         IF SliceLen(token.Expecting) > 0 THEN pushExpecting(stack, token.Expecting)
         ELSE stack
    [] token.Type = TokenType.End -> popExpecting(stack)
    [] token.Type = TokenType.Bridge ->
         IF token.Expecting # Nil THEN replaceExpecting(stack, token.Expecting)
         ELSE stack
    [] OTHER -> stack

\* a variant in which no token stops the run
stopsProcessingNever(token) == FALSE

\* the token stops the run
stopsProcessing(token) == token.Type = TokenType.Exception

\* the tokens, the stack and the error after the token is added; the cursor
\* t is only peeked from
addTokenAndManageStack(t, toks, stack, token) ==
  LET stopped(last) ==
        [tokens |-> Append(toks, last), expectingStack |-> stack,
         err |-> Errorf("tokenisation error", last.Span.Start.Line,
                        last.Span.Start.Col)]
      added(token1) ==
        IF stopsProcessing(token1) THEN stopped(token1)
        ELSE [tokens |-> Append(toks, token1),
              expectingStack |-> manageStack(stack, token1), err |-> Nil]
      checked(v) ==
        IF token.Type = TokenType.NumericLiteral /\ ~v.valid
        THEN stopped(NewExceptionToken(token.Text,
                       <<"invalid numeric literal: ">> \o v.reason, token.Span))
        ELSE added(IF skipWhitespaceAndComments(t).sawNewline
                   THEN [token EXCEPT !.LnAfter = Ptr(TRUE)]
                   ELSE token)
  IN  checked(isValidNumber(token))

\* token.Span.Start = start and the LnBefore flag
startToken(token, start, sawNewlineBefore) ==
  [token EXCEPT !.Span.Start = start,
                !.LnBefore = IF sawNewlineBefore THEN Ptr(TRUE) ELSE @]

\* nextToken: the cursor, tokens, stack and error after one call; from is
\* the offset at which the token was looked for, panic tells that the call
\* panicked in matchCustomRules
nextToken(t, toks, stack) ==
  LET t0 == skipWhitespaceAndComments(t).t
      sawNewlineBefore == skipWhitespaceAndComments(t).sawNewline
      start == Position(t0.line, t0.column)
      out(tc, a) ==
        [t |-> tc, tokens |-> a.tokens, expectingStack |-> a.expectingStack,
         err |-> a.err, from |-> t0.position, panic |-> FALSE]
      emit(found) ==
        out(found.t,
            addTokenAndManageStack(found.t, toks, stack,
              startToken(found.token[1], start, sawNewlineBefore)))
      unclassified(d) ==
        [t |-> advance(t0, d.size),
         token |-> Ptr(NewToken(RuneBytes(d.r), TokenType.Unclassified,
                         Span(start, Position(t0.line, t0.column + d.size))))]
      classify(s, n, c) ==
        IF s.err # Nil
        THEN out(s.t, [tokens |-> toks, expectingStack |-> stack, err |-> s.err])
        ELSE IF s.token = Nil /\ n.token = Nil /\ c.panic
        THEN [out(t0, [tokens |-> toks, expectingStack |-> stack, err |-> Nil])
                EXCEPT !.panic = TRUE]
        ELSE emit(IF s.token # Nil THEN s
                  ELSE IF n.token # Nil THEN n
                  ELSE IF c.token # Nil THEN c
                  ELSE unclassified(DecodeRuneInString(input, t0.position)))
  IN  IF t0.position >= Len(input)
      THEN out(t0, [tokens |-> toks, expectingStack |-> stack, err |-> Nil])
      ELSE classify(matchString(t0), matchNumeric(t0), matchCustomRules(t0, stack))

-----------------------------------------------------------------------------
(* Tokenize: one step per iteration of its loop. *)

NewTokenizerWithRules(in, r) ==
  /\ rulesFile = Nil
  /\ input = in
  /\ rules = r
  /\ position = 0
  /\ line = 1
  /\ column = 1
  /\ markStack = <<>>
  /\ tokens = <<>>
  /\ expectingStack = <<>>
  /\ pc = "run"
  /\ err = Nil
  /\ history = <<>>
  /\ queue = <<>>
  /\ finished = <<>>

\* one iteration of the loop of Tokenize: a call of nextToken
TokenizeStep ==
  LET step(r) ==
        /\ position' = r.t.position
        /\ line' = r.t.line
        /\ column' = r.t.column
        /\ markStack' = r.t.markStack
        /\ tokens' = r.tokens
        /\ expectingStack' = r.expectingStack
        /\ err' = r.err
        /\ pc' = IF r.panic THEN "panic" ELSE IF r.err # Nil THEN "done" ELSE "run"
        /\ history' = IF Len(r.tokens) > Len(tokens)
                      THEN Append(history,
                             [gap |-> position, from |-> r.from, to |-> r.t.position,
                              stackBefore |-> expectingStack,
                              stackAfter |-> r.expectingStack])
                      ELSE history
  IN  /\ pc = "run"
      /\ position < Len(input)
      /\ step(nextToken(Cursor(position, line, column, markStack), tokens,
                        expectingStack))
      /\ UNCHANGED <<rulesFile, input, rules, queue, finished>>

\* the loop condition fails: Tokenize returns the tokens and a nil error
TokenizeReturn ==
  /\ pc = "run"
  /\ position >= Len(input)
  /\ pc' = "done"
  /\ UNCHANGED <<rulesFile, input, rules, position, line, column, markStack,
                 tokens, expectingStack, err, history, queue, finished>>

Next == TokenizeStep \/ TokenizeReturn

\* main with a rules file: ApplyRulesToDefaults, then NewTokenizerWithRules, or
\* os.Exit(1) when the rules are rejected
ApplyRules ==
  LET build(applied) ==
        /\ rules' = IF applied.err # Nil THEN rules ELSE applied.rules
        /\ err' = applied.err
        /\ pc' = IF applied.err # Nil THEN "exit" ELSE "run"
  IN  /\ pc = "main"
      /\ build(ApplyRulesToDefaults(rulesFile[1]))
      /\ UNCHANGED <<rulesFile, input, position, line, column, markStack, tokens,
                     expectingStack, history, queue, finished>>

NextRules == ApplyRules \/ TokenizeStep \/ TokenizeReturn

\* the caller keeps what Tokenize returned and tokenizes the next input with
\* a new Tokenizer over the same rules
TokenizeNext ==
  /\ pc = "done"
  /\ queue # <<>>
  /\ finished' = Append(finished, [input |-> input, tokens |-> tokens, err |-> err,
                                   history |-> history])
  /\ input' = Head(queue)
  /\ queue' = Tail(queue)
  /\ position' = 0
  /\ line' = 1
  /\ column' = 1
  /\ markStack' = <<>>
  /\ tokens' = <<>>
  /\ expectingStack' = <<>>
  /\ pc' = "run"
  /\ err' = Nil
  /\ history' = <<>>
  /\ UNCHANGED <<rulesFile, rules>>

NextSeries == TokenizeStep \/ TokenizeReturn \/ TokenizeNext

\* the concatenations of at most n fragments of V
RECURSIVE Concats(_, _)
Concats(V, n) ==
  IF n = 0 THEN {<<>>}
  ELSE LET S == Concats(V, n - 1) IN S \cup {s \o v : s \in S, v \in V}

-----------------------------------------------------------------------------
(* Source texts.  A text is built from at most a bounded number of         *)
(* fragments of a vocabulary; each vocabulary exercises one part of the    *)
(* tokenizer.                                                              *)

Last(seq) == seq[Len(seq)]

\* the i-th emitted token is the last one and the run has ended in an error
HaltsAt(i) == i = Len(tokens) /\ pc = "done" /\ err # Nil

\* the tokens of type X are at most the last token
ExceptionOnlyLast ==
  \A i \in 1..Len(tokens) :
     tokens[i].Type = TokenType.Exception => i = Len(tokens)

HaltedOnException ==
  tokens # <<>> /\ Last(tokens).Type = TokenType.Exception

-----------------------------------------------------------------------------
(* Numeric literals, valid and invalid, between identifiers and            *)
(* separators.                                                             *)

VocabHalt ==
  { <<"a">>, <<" ">>, <<"\n">>, <<"7">>,
    <<"1", "x", "1">>, <<"0", "x", "1", "F">>,
    <<"1", "0", "r", "A", "B">>, <<"2", "r", "1", ".", "5">> }

MaxPiecesHalt == 4

InitHalt ==
  \E in \in Concats(VocabHalt, MaxPiecesHalt) : NewTokenizerWithRules(in, DefaultRules)

SpecHalt == InitHalt /\ [][Next]_vars

(* C1: an Exception token occurs at most once in the output and only as    *)
(* its last element; once it is the last element the run is over, and no   *)
(* step consumes input or appends a token.                                 *)
C1_HaltAtFirstException ==
  /\ [](ExceptionOnlyLast /\ (HaltedOnException => pc = "done" /\ err # Nil))
  /\ [][HaltedOnException => position' = position /\ tokens' = tokens]_vars

\* an Exception after an earlier token, with input left unread
C1_Witness ==
  /\ Len(tokens) >= 2
  /\ HaltedOnException
  /\ pc = "done"
  /\ position < Len(input)

-----------------------------------------------------------------------------
(* Keywords, the wildcard and the expectation stack.  history[i] records   *)
(* the step that appended tokens[i].                                       *)

VocabWild ==
  { <<"i", "f", " ">>, <<"x", " ">>, <<":", " ">>, <<"d", "e", "f", " ">>,
    <<"=", ">", ">", " ">>, <<"t", "r", "y", " ">>,
    <<"c", "a", "t", "c", "h", " ">>, <<"s", "w", "i", "t", "c", "h", " ">>,
    <<"e", "n", "d", " ">> }

MaxPiecesWild == 4

InitWild ==
  \E in \in Concats(VocabWild, MaxPiecesWild) : NewTokenizerWithRules(in, DefaultRules)

SpecWild == InitWild /\ [][Next]_vars

\* the source text of the i-th token's lexeme
Lexeme(i) == Slice2(input, history[i].from, history[i].to)

\* the steps that matched a wildcard lexeme
WildcardSteps == {i \in 1..Len(history) : Lexeme(i) \in rules.WildcardTokens}

\* at step i the stack was non-empty and its top frame was non-empty
HasExpectation(i) ==
  /\ history[i].stackBefore # <<>>
  /\ SliceLen(Last(history[i].stackBefore)) > 0

\* the first element of the top frame at step i
FirstExpected(i) == Elems(Last(history[i].stackBefore))[1]

(* C3: a wildcard matched while the first element E of a non-empty top     *)
(* frame names a Bridge rule is emitted as a Bridge token with the         *)
(* wildcard's own text, the expecting, in and arity of E's rule, and the   *)
(* alias E.                                                                *)
C3_WildcardBridge ==
  \A i \in WildcardSteps :
     (HasExpectation(i) /\ FirstExpected(i) \in DOMAIN rules.BridgeTokens) =>
       /\ tokens[i].Type = TokenType.Bridge
       /\ tokens[i].Text = Lexeme(i)
       /\ tokens[i].Expecting = rules.BridgeTokens[FirstExpected(i)].Expecting
       /\ tokens[i].In = rules.BridgeTokens[FirstExpected(i)].In
       /\ tokens[i].Arity = Ptr(rules.BridgeTokens[FirstExpected(i)].Arity)
       /\ tokens[i].Alias = Ptr(FirstExpected(i))

\* a wildcard has been emitted while a Bridge keyword was expected
C3_Witness ==
  \E i \in WildcardSteps :
     /\ HasExpectation(i)
     /\ FirstExpected(i) \in DOMAIN rules.BridgeTokens
     /\ tokens[i].Alias = Ptr(FirstExpected(i))

(* C4: a wildcard matched while the first element E of the top frame does  *)
(* not name a Bridge rule is a Start token with E's closers and alias E    *)
(* when E names a Start rule, otherwise an End token with alias E when E   *)
(* begins with "end", otherwise Unclassified.                              *)
C4_WildcardStartEnd ==
  \A i \in WildcardSteps :
     (HasExpectation(i) /\ FirstExpected(i) \notin DOMAIN rules.BridgeTokens) =>
       IF FirstExpected(i) \in DOMAIN rules.StartTokens
       THEN /\ tokens[i].Type = TokenType.Start
            /\ tokens[i].ClosedBy = rules.StartTokens[FirstExpected(i)].ClosedBy
            /\ tokens[i].Alias = Ptr(FirstExpected(i))
       ELSE IF HasPrefix(FirstExpected(i), 0, <<"e", "n", "d">>)
       THEN /\ tokens[i].Type = TokenType.End
            /\ tokens[i].Alias = Ptr(FirstExpected(i))
       ELSE tokens[i].Type = TokenType.Unclassified

\* the token the tokenizer makes of the literal lexeme E at the position
\* and with the stack of step i
LiteralToken(i, E) ==
  ruleToken(Cursor(history[i].from, tokens[i].Span.Start.Line,
                   tokens[i].Span.Start.Col, <<>>),
            history[i].stackBefore, rules.TokenLookup[1][E], E, tokens[i].Span)

(* C5: a wildcard resolved against the expectation E has the type,         *)
(* expecting, in and arity of the token emitted for the literal lexeme E   *)
(* at the same position with the same stack.                               *)
C5_WildcardFidelity ==
  \A i \in WildcardSteps :
     tokens[i].Alias # Nil =>
       /\ tokens[i].Type = LiteralToken(i, tokens[i].Alias[1]).Type
       /\ tokens[i].Expecting = LiteralToken(i, tokens[i].Alias[1]).Expecting
       /\ tokens[i].In = LiteralToken(i, tokens[i].Alias[1]).In
       /\ tokens[i].Arity = LiteralToken(i, tokens[i].Alias[1]).Arity

(* C6: a wildcard matched while the stack is empty or its top frame is an  *)
(* empty list is emitted as an Unclassified token with the wildcard's own  *)
(* text, and the stack is unchanged.                                       *)
C6_WildcardUnclassified ==
  \A i \in WildcardSteps :
     ~HasExpectation(i) =>
       /\ tokens[i].Type = TokenType.Unclassified
       /\ tokens[i].Text = Lexeme(i)
       /\ history[i].stackAfter = history[i].stackBefore

\* a wildcard has been emitted under an empty top frame, above a frame
\* that expects a keyword
C6_Witness ==
  \E i \in WildcardSteps :
     /\ Len(history[i].stackBefore) >= 2
     /\ SliceLen(Last(history[i].stackBefore)) = 0
     /\ SliceLen(history[i].stackBefore[Len(history[i].stackBefore) - 1]) > 0
     /\ tokens[i].Type = TokenType.Unclassified

-----------------------------------------------------------------------------
(* String literals: quotes, raw strings, escapes and interpolation.  Every *)
(* character of the vocabulary is one byte long.                           *)

VocabStr ==
  { <<"\"">>, <<"a">>, <<" ">>, <<"@">>, <<"\n">>,
    <<"\\", "u", "0", "0", "4", "1">>, <<"\\", "(">>, <<")">> }

MaxPiecesStr == 4

InitStr ==
  \E in \in Concats(VocabStr, MaxPiecesStr) : NewTokenizerWithRules(in, DefaultRules)

SpecStr == InitStr /\ [][Next]_vars

(* C2: whenever Tokenize returns an error, the last token returned is an   *)
(* Exception token that carries a reason.                                  *)
C2_ErrorsMaterialized ==
  (pc = "done" /\ err # Nil) => (HaltedOnException /\ Last(tokens).Reason # Nil)

\* the offset at which line l of the input starts
LineStart(l) ==
  LET breaks == {i \in 1..Len(input) :
                   /\ input[i] = "\n"
                   /\ Cardinality({j \in 1..i : input[j] = "\n"}) = l - 1}
  IN  IF l = 1 THEN 0
      ELSE IF breaks = {} THEN Len(input)
      ELSE CHOOSE i \in breaks : TRUE

\* the offset of a position (line, column), both counted from 1
OffsetOf(pos) ==
  IF LineStart(pos.Line) + pos.Col - 1 > Len(input) THEN Len(input)
  ELSE LineStart(pos.Line) + pos.Col - 1

\* the source text from the start of a span up to its end
SpanText(span) == Slice2(input, OffsetOf(span.Start), OffsetOf(span.End))

(* C7: the source text within the span of every emitted token is the       *)
(* token's text.                                                           *)
C7_SpanCoverage ==
  \A i \in 1..Len(tokens) : SpanText(tokens[i].Span) = tokens[i].Text

-----------------------------------------------------------------------------
(* Line breaks and comments between tokens.                                *)

VocabNl ==
  { <<"a">>, <<" ">>, <<"\n">>, <<"\r">>, <<"#", "#", "#", "c">>,
    <<"7">>, <<"1", "0", "r", "A", "B">> }

MaxPiecesNl == 4

InitNl ==
  \E in \in Concats(VocabNl, MaxPiecesNl) : NewTokenizerWithRules(in, DefaultRules)

SpecNl == InitNl /\ [][Next]_vars

\* the source text from offset a up to offset b contains a line feed, a
\* carriage return or the opening of a comment
GapHasBreak(a, b) ==
  \E k \in (a + 1)..b :
     \/ input[k] \in {"\n", "\r"}
     \/ k + 2 <= b /\ input[k] = "#" /\ input[k + 1] = "#" /\ input[k + 2] = "#"

\* the offset where the text following the i-th token ends: the start of
\* the next token, or the end of the input
GapEndAfter(i) ==
  IF i < Len(history) THEN history[i + 1].from ELSE Len(input)

(* C8: for every emitted token, ln_before is set exactly when the text     *)
(* skipped before it (since the previous token or the start of the input)  *)
(* contains a line feed, a carriage return or a ### comment, and ln_after  *)
(* is set exactly when the text between it and the next token (or the end  *)
(* of the input, once the run has ended without error) does.               *)
C8_NewlineFlags ==
  \A i \in 1..Len(tokens) :
     /\ tokens[i].LnBefore = Ptr(TRUE)
          <=> GapHasBreak(history[i].gap, history[i].from)
     /\ (i < Len(tokens) \/ (pc = "done" /\ err = Nil))
          => (tokens[i].LnAfter = Ptr(TRUE)
                <=> GapHasBreak(history[i].to, GapEndAfter(i)))

-----------------------------------------------------------------------------
(* Radix-form literals: prefix, base and digits.                           *)

\* the submatches of radixRegex at the start of the i-th token's lexeme
RadixMatch(i) == radixRegex(history[i].from)

\* the number written by a run of decimal digits, as far as it matters for
\* a base: any number of three or more significant digits counts as 100
DecimalOf(digits) ==
  LET zeros == {k \in 0..Len(digits) : \A j \in 1..k : digits[j] = "0"}
      lead == CHOOSE k \in zeros : \A j \in zeros : j <= k
      sig == SubSeq(digits, lead + 1, Len(digits))
  IN  IF Len(sig) = 0 THEN 0
      ELSE IF Len(sig) = 1 THEN DigitValue(sig[1])
      ELSE IF Len(sig) = 2 THEN 10 * DigitValue(sig[1]) + DigitValue(sig[2])
      ELSE 100

\* the base a radix prefix stands for, 0 when the prefix is not well formed
BaseOfPrefix(prefix) ==
  LET letter == Last(prefix)
      digits == SubSeq(prefix, 1, Len(prefix) - 1)
  IN  IF letter = "r"
      THEN IF DecimalOf(digits) \in 2..36 THEN DecimalOf(digits) ELSE 0
      ELSE IF digits # <<"0">> THEN 0
      ELSE IF letter = "x" THEN 16
      ELSE IF letter = "o" THEN 8
      ELSE IF letter = "b" THEN 2
      ELSE 3

\* some digit of the mantissa or of the fraction is not a digit of the base
HasInvalidDigit(m) ==
  \E k \in 1..Len(m[3] \o m[4]) :
     LET ch == (m[3] \o m[4])[k]
     IN  /\ ch \notin {"_", "."}
         /\ ~(Last(m[2]) = "t" /\ ch = "T")
         /\ DigitValue(ch) >= BaseOfPrefix(m[2])

(* C9: a radix-form literal with a well-formed prefix whose mantissa or    *)
(* fraction holds a digit that is not valid for its base yields one token  *)
(* for the lexeme, an Exception with reason "invalid literal" whose text   *)
(* and span cover the whole lexeme; the run ends there with an error.      *)
C9_InvalidDigitReason ==
  \A i \in 1..Len(tokens) :
     (/\ RadixMatch(i) # Nil
      /\ BaseOfPrefix(RadixMatch(i)[1][2]) # 0
      /\ HasInvalidDigit(RadixMatch(i)[1]))
       => /\ tokens[i].Type = TokenType.Exception
          /\ tokens[i].Reason = Ptr(<<"invalid literal">>)
          /\ tokens[i].Text = RadixMatch(i)[1][1]
          /\ SpanText(tokens[i].Span) = RadixMatch(i)[1][1]
          /\ HaltsAt(i)

VocabRadix ==
  { <<"0">>, <<"1">>, <<"6">>, <<"x">>, <<"r">>, <<"b">>, <<"t">>, <<" ">>,
    <<"1", "8", "4", "4", "6", "7", "4", "4", "0", "7",
      "3", "7", "0", "9", "5", "5", "1", "6", "3", "2">> }

MaxPiecesRadix == 4

InitRadix ==
  \E in \in Concats(VocabRadix, MaxPiecesRadix) : NewTokenizerWithRules(in, DefaultRules)

SpecRadix == InitRadix /\ [][Next]_vars

(* C10: for a radix-form match the letter decides: x, o, b and t need the  *)
(* preceding digits to be exactly 0 (bases 16, 8, 2, 3), r takes the       *)
(* preceding decimal number as the base, which must lie in 2..36, and any  *)
(* other prefix yields an Exception with reason "invalid literal"; every   *)
(* numeric token has a base in 2..36 and a radix field equal to the        *)
(* literal's textual prefix, empty for a decimal literal.                  *)
C10_RadixClassification ==
  \A i \in 1..Len(tokens) :
     /\ RadixMatch(i) # Nil =>
          IF BaseOfPrefix(RadixMatch(i)[1][2]) = 0
          THEN /\ tokens[i].Type = TokenType.Exception
               /\ tokens[i].Reason = Ptr(<<"invalid literal">>)
          ELSE tokens[i].Type = TokenType.NumericLiteral =>
                 /\ tokens[i].Base = Ptr(BaseOfPrefix(RadixMatch(i)[1][2]))
                 /\ tokens[i].Radix = Ptr(RadixMatch(i)[1][2])
     /\ tokens[i].Type = TokenType.NumericLiteral =>
          /\ tokens[i].Base # Nil /\ tokens[i].Base[1] \in 2..36
          /\ RadixMatch(i) = Nil => tokens[i].Radix = Ptr(<<>>)

-----------------------------------------------------------------------------
(* Numeric literals with separators, fractions and exponents.              *)

VocabNum ==
  { <<"1">>, <<"_", "2">>, <<".">>, <<".", "5">>, <<"e", "-", "3">>,
    <<"e", "+", "0", "3">>, <<"e", "0">>, <<"1", "6", "r", "A">>, <<" ">> }

MaxPiecesNum == 4

InitNum ==
  \E in \in Concats(VocabNum, MaxPiecesNum) : NewTokenizerWithRules(in, DefaultRules)

SpecNum == InitNum /\ [][Next]_vars

\* a text without its underscores
WithoutUnderscores(text) ==
  LET keep == {k \in 1..Len(text) : text[k] # "_"}
      nth(j) == CHOOSE k \in keep : Cardinality({m \in keep : m < k}) = j - 1
  IN  [j \in 1..Cardinality(keep) |-> text[nth(j)]]

\* the decimal digits of a natural number
RECURSIVE DecimalDigits(_)
DecimalDigits(n) ==
  IF n < 10 THEN <<DigitChars[n + 1]>>
  ELSE DecimalDigits(n \div 10) \o <<DigitChars[(n % 10) + 1]>>

\* the ways of writing an integer as a signed decimal number
SignedDecimals(n) ==
  IF n < 0 THEN {<<"-">> \o DecimalDigits(0 - n)}
  ELSE {DecimalDigits(n), <<"+">> \o DecimalDigits(n)}

\* radix and mantissa of a numeric token, then "." and its fraction when it
\* has one
FixedPart(tok) ==
  tok.Radix[1] \o tok.Mantissa[1]
    \o (IF tok.Fraction # Nil THEN <<".">> \o tok.Fraction[1] ELSE <<>>)

NumericTokens == {i \in 1..Len(tokens) : tokens[i].Type = TokenType.NumericLiteral}

(* C11: underscore transparency: the text of every numeric token, with its *)
(* underscores removed, is the concatenation of its radix, its mantissa,   *)
(* "." and the fraction when a fraction is present, and "e" and the signed *)
(* exponent when an exponent is present.                                   *)
C11_UnderscoreTransparency ==
  \A i \in NumericTokens :
     IF tokens[i].Exponent = Nil
     THEN WithoutUnderscores(tokens[i].Text) = FixedPart(tokens[i])
     ELSE \E w \in SignedDecimals(tokens[i].Exponent[1]) :
             WithoutUnderscores(tokens[i].Text) = FixedPart(tokens[i]) \o <<"e">> \o w

\* what follows radix and mantissa in the text of a numeric token, the
\* underscores removed
AfterMantissa(tok) ==
  SubSeq(WithoutUnderscores(tok.Text),
         Len(tok.Radix[1]) + Len(tok.Mantissa[1]) + 1,
         Len(WithoutUnderscores(tok.Text)))

\* the offset of the exponent marker in a text, or the length of the text
ExponentAt(text) ==
  IF \E k \in 1..Len(text) : text[k] = "e"
  THEN (CHOOSE k \in 1..Len(text) : text[k] = "e") - 1
  ELSE Len(text)

\* w is [+-]?digits
IsSignedDecimal(w) ==
  LET digits == IF w # <<>> /\ w[1] \in {"+", "-"} THEN Tail(w) ELSE w
  IN  digits # <<>> /\ \A k \in 1..Len(digits) : digits[k] \in Digits

\* the integer written by [+-]?digits, leading zeros allowed
WrittenInteger(w) ==
  LET digits == IF w[1] \in {"+", "-"} THEN Tail(w) ELSE w
      value == NumeralValue(digits, 0)
  IN  IF w[1] = "-" THEN 0 - value ELSE value

\* part is "e" and a signed decimal number of the given value
WritesExponent(part, value) ==
  /\ Len(part) >= 2
  /\ part[1] = "e"
  /\ IsSignedDecimal(Tail(part))
  /\ WrittenInteger(Tail(part)) = value

(* C11 as the program has it: the text of every numeric token, with its    *)
(* underscores removed, is radix and mantissa, then the fraction as        *)
(* written (a "." and digits; the fraction field is present exactly when   *)
(* there are digits), then the exponent as written (an "e" and a signed    *)
(* decimal number; the exponent field is its value, present exactly when   *)
(* that value is not zero).                                                *)
C11_TransparencyAsWritten ==
  \A i \in NumericTokens :
     LET rest == AfterMantissa(tokens[i])
         fractionPart == SubSeq(rest, 1, ExponentAt(rest))
         exponentPart == SubSeq(rest, ExponentAt(rest) + 1, Len(rest))
     IN  /\ Len(WithoutUnderscores(tokens[i].Text))
              >= Len(tokens[i].Radix[1]) + Len(tokens[i].Mantissa[1])
         /\ SubSeq(WithoutUnderscores(tokens[i].Text), 1,
                   Len(tokens[i].Radix[1]) + Len(tokens[i].Mantissa[1]))
              = tokens[i].Radix[1] \o tokens[i].Mantissa[1]
         /\ IF tokens[i].Fraction # Nil
            THEN fractionPart = <<".">> \o tokens[i].Fraction[1]
            ELSE fractionPart \in {<<>>, <<".">>}
         /\ IF tokens[i].Exponent # Nil
            THEN /\ WritesExponent(exponentPart, tokens[i].Exponent[1])
                 /\ tokens[i].Exponent[1] # 0
            ELSE exponentPart = <<>> \/ WritesExponent(exponentPart, 0)

\* a numeric token written with an underscore, a fraction and an exponent
C11_Witness ==
  \E i \in NumericTokens :
     /\ \E k \in 1..Len(tokens[i].Text) : tokens[i].Text[k] = "_"
     /\ tokens[i].Fraction # Nil
     /\ tokens[i].Exponent # Nil

-----------------------------------------------------------------------------
(* Balanced ternary literals.                                              *)

VocabTernary ==
  { <<"0", "t">>, <<"0">>, <<"1">>, <<"T">>, <<"2">>, <<".">>, <<"_">>, <<" ">> }

MaxPiecesTernary == 4

InitTernary ==
  \E in \in Concats(VocabTernary, MaxPiecesTernary) : NewTokenizerWithRules(in, DefaultRules)

SpecTernary == InitTernary /\ [][Next]_vars

BalancedDigits == {"0", "1", "T"}

\* every character of the digits is a balanced ternary digit
OnlyBalancedDigits(digits) ==
  \A k \in 1..Len(digits) : digits[k] \in BalancedDigits

(* C12: a balanced ternary literal uses only the digits 0, 1 and T: the    *)
(* mantissa and the fraction of every numeric token with balanced = true   *)
(* are made of these digits, and a 0t literal with any other digit is      *)
(* emitted as an Exception.                                                *)
C12_BalancedDigits ==
  \A i \in 1..Len(tokens) :
     /\ (tokens[i].Type = TokenType.NumericLiteral /\ tokens[i].Balanced = Ptr(TRUE))
          => /\ OnlyBalancedDigits(tokens[i].Mantissa[1])
             /\ tokens[i].Fraction # Nil => OnlyBalancedDigits(tokens[i].Fraction[1])
     /\ (/\ RadixMatch(i) # Nil
         /\ RadixMatch(i)[1][2] = <<"0", "t">>
         /\ \E k \in 1..Len(RadixMatch(i)[1][3] \o RadixMatch(i)[1][4]) :
               (RadixMatch(i)[1][3] \o RadixMatch(i)[1][4])[k]
                  \notin BalancedDigits \cup {"_", "."})
          => tokens[i].Type = TokenType.Exception

-----------------------------------------------------------------------------
(* Rules files.  main applies the rules file to the defaults before the    *)
(* tokenizer is built.                                                     *)

StartLists ==
  { <<>>,
    << [Text |-> <<"b">>, ClosedBy |-> Slice(<< <<"e">> >>),
        Expecting |-> Slice(<< <<"w">> >>), Single |-> FALSE] >>,
    << [Text |-> <<"b">>, ClosedBy |-> Slice(<< <<"e">> >>),
        Expecting |-> Slice(<< <<"w">> >>), Single |-> FALSE],
       [Text |-> <<"b">>, ClosedBy |-> Slice(<< <<"e">>, <<"e", "b">> >>),
        Expecting |-> Nil, Single |-> TRUE] >>,
    << [Text |-> <<"w">>, ClosedBy |-> Slice(<< <<"e">> >>),
        Expecting |-> Nil, Single |-> FALSE] >> }

BridgeLists ==
  { <<>>,
    << [Text |-> <<"w">>, Expecting |-> Slice(<< <<"e">> >>),
        In |-> Slice(<< <<"b">> >>)] >> }

PrefixLists == { <<>>, << [Text |-> <<"i", "n">>] >> }

OperatorLists == { <<>>, << [Text |-> <<"^">>, Precedence |-> <<0, 5, 0>>] >> }

WildcardLists == { <<>>, << [Text |-> <<"?">>] >> }

MarkLists == { <<>>, << [Text |-> <<";">>], [Text |-> <<";">>] >> }

BracketLists ==
  { <<>>,
    << [Text |-> <<"(">>, ClosedBy |-> Slice(<< <<")">> >>),
        InfixPrec |-> 5, Prefix |-> FALSE] >> }

RuleInputs ==
  { [Bracket |-> br, Prefix |-> p, Start |-> st, Bridge |-> bg, Wildcard |-> w,
     Operator |-> o, Mark |-> m] :
      br \in BracketLists, p \in PrefixLists, st \in StartLists,
      bg \in BridgeLists, w \in WildcardLists, o \in OperatorLists,
      m \in MarkLists }

VocabRules ==
  { <<"b", " ">>, <<"w", " ">>, <<"e", " ">>, <<"?", " ">>, <<"^", " ">>,
    <<";", " ">> }

MaxPiecesRules == 2

\* main has read the source and loaded the rules file
InitRules ==
  \E rf \in RuleInputs, in \in Concats(VocabRules, MaxPiecesRules) :
     /\ rulesFile = Ptr(rf)
     /\ input = in
     /\ rules = Nil
     /\ position = 0
     /\ line = 1
     /\ column = 1
     /\ markStack = <<>>
     /\ tokens = <<>>
     /\ expectingStack = <<>>
     /\ pc = "main"
     /\ err = Nil
     /\ history = <<>>
     /\ queue = <<>>
     /\ finished = <<>>

SpecRules == InitRules /\ [][NextRules]_vars

RuleTexts(list) == {list[i].Text : i \in 1..Len(list)}

\* the number of rules a category holds for a lexeme: those of the supplied
\* list, or the default of an absent category
RulesFor(list, defaults, lexeme) ==
  IF Len(list) > 0
  THEN Cardinality({i \in 1..Len(list) : list[i].Text = lexeme})
  ELSE IF lexeme \in defaults THEN 1 ELSE 0

\* the number of defining rules of a lexeme
DefiningRules(rf, lexeme) ==
  RulesFor(rf.Wildcard, getDefaultWildcardTokens, lexeme)
  + RulesFor(rf.Start, DOMAIN getDefaultStartTokens, lexeme)
  + RulesFor(rf.Bridge, DOMAIN getDefaultBridgeTokens, lexeme)
  + RulesFor(rf.Prefix, getDefaultPrefixTokens, lexeme)
  + RulesFor(rf.Operator, DOMAIN getDefaultOperatorPrecedences, lexeme)
  + RulesFor(rf.Bracket, DOMAIN getDefaultDelimiterMappings, lexeme)
  + RulesFor(rf.Mark, DefaultMarkTokens, lexeme)

\* some lexeme of the rules file has more than one defining rule
HasRivalRules(rf) ==
  \E lexeme \in RuleTexts(rf.Wildcard \o rf.Start \o rf.Bridge \o rf.Prefix
                          \o rf.Operator \o rf.Bracket \o rf.Mark) :
     DefiningRules(rf, lexeme) > 1

(* C13: when the rules file, with the defaults it keeps, gives a lexeme    *)
(* more than one defining rule, in two categories or in one, building the  *)
(* rule table fails and no tokenization starts.                            *)
C13_ConflictRejected ==
  (rulesFile # Nil /\ HasRivalRules(rulesFile[1])) =>
     /\ pc \in {"main", "exit"}
     /\ pc = "exit" => err # Nil
     /\ tokens = <<>>

\* every rule of the list is in the map, every key of the map is the text of
\* a rule, and the attributes of a key are those of a rule with that text
SameEntries(list, keys, same(_, _)) ==
  /\ keys = RuleTexts(list)
  /\ \A k \in keys : \E i \in 1..Len(list) : list[i].Text = k /\ same(k, list[i])

(* C14: a category that the rules file supplies holds exactly the supplied *)
(* entries with their supplied attributes and none of the defaults; a      *)
(* category that is absent holds exactly its defaults.                     *)
C14_CategoryReplacement ==
  (rulesFile # Nil /\ pc \in {"run", "done"}) =>
     LET rf == rulesFile[1]
     IN  /\ IF Len(rf.Bracket) > 0
            THEN SameEntries(rf.Bracket, DOMAIN rules.DelimiterMappings,
                   LAMBDA k, r : /\ rules.DelimiterMappings[k] = r.ClosedBy
                                 /\ rules.DelimiterProperties[k]
                                      = DelimiterProp(r.InfixPrec, r.Prefix))
            ELSE /\ rules.DelimiterMappings = getDefaultDelimiterMappings
                 /\ rules.DelimiterProperties = getDefaultDelimiterProperties
         /\ IF Len(rf.Prefix) > 0
            THEN rules.PrefixTokens = RuleTexts(rf.Prefix)
            ELSE rules.PrefixTokens = getDefaultPrefixTokens
         /\ IF Len(rf.Start) > 0
            THEN SameEntries(rf.Start, DOMAIN rules.StartTokens,
                   LAMBDA k, r : /\ rules.StartTokens[k].Expecting = r.Expecting
                                 /\ rules.StartTokens[k].ClosedBy = r.ClosedBy)
            ELSE rules.StartTokens = getDefaultStartTokens
         /\ IF Len(rf.Bridge) > 0
            THEN SameEntries(rf.Bridge, DOMAIN rules.BridgeTokens,
                   LAMBDA k, r : /\ rules.BridgeTokens[k].Expecting = r.Expecting
                                 /\ rules.BridgeTokens[k].In = r.In)
            ELSE rules.BridgeTokens = getDefaultBridgeTokens
         /\ IF Len(rf.Wildcard) > 0
            THEN rules.WildcardTokens = RuleTexts(rf.Wildcard)
            ELSE rules.WildcardTokens = getDefaultWildcardTokens
         /\ IF Len(rf.Operator) > 0
            THEN SameEntries(rf.Operator, DOMAIN rules.OperatorPrecedences,
                   LAMBDA k, r : rules.OperatorPrecedences[k] = r.Precedence)
            ELSE rules.OperatorPrecedences = getDefaultOperatorPrecedences
         /\ IF Len(rf.Mark) > 0
            THEN rules.MarkTokens = RuleTexts(rf.Mark)
            ELSE rules.MarkTokens = DefaultMarkTokens

-----------------------------------------------------------------------------
(* Identifiers, operator runs and other characters that no rule names.     *)
(* The tokenizer is built with the default rules, with rules that have no  *)
(* lookup table, with rules without entries whose table was built, or with *)
(* no rules.                                                               *)

VocabMiss ==
  { <<"a">>, <<"1">>, <<"_">>, <<"+">>, <<"~">>, <<"#">>, <<"C3", "A9">>,
    <<"i", "f">>, <<" ">> }

MaxPiecesMiss == 4

\* &TokenizerRules{} after BuildTokenLookup()
RulesWithoutEntries ==
  (CHOOSE outcome \in BuildTokenLookup(
    [StartTokens |-> <<>>,
     BridgeTokens |-> <<>>,
     PrefixTokens |-> {},
     DelimiterMappings |-> <<>>,
     DelimiterProperties |-> <<>>,
     WildcardTokens |-> {},
     OperatorPrecedences |-> <<>>,
     MarkTokens |-> {},
     TokenLookup |-> Nil]) : TRUE).rules

RulesMiss ==
  {DefaultRules, [DefaultRules EXCEPT !.TokenLookup = Nil], RulesWithoutEntries,
   Nil}

InitMiss ==
  \E in \in Concats(VocabMiss, MaxPiecesMiss), r \in RulesMiss :
     NewTokenizerWithRules(in, r)

SpecMiss == InitMiss /\ [][Next]_vars

\* the end of the identifier run that starts at offset p, p when none does
IdentifierRunEnd(p) ==
  IF ByteAt(p) \in LowerLetters \cup UpperLetters \cup {"_"}
  THEN RunEnd(p + 1, LowerLetters \cup UpperLetters \cup Digits \cup {"_"})
  ELSE p

\* the end of the candidate lexeme at offset p: an identifier run, else an
\* operator run, else one rune
CandidateEnd(p) ==
  IF IdentifierRunEnd(p) > p THEN IdentifierRunEnd(p)
  ELSE IF RunEnd(p, OperatorChars) > p THEN RunEnd(p, OperatorChars)
  ELSE p + DecodeRuneInString(input, p).size

\* the lexemes of the rule table, none when there is no table
TableLexemes ==
  IF rules = Nil \/ rules.TokenLookup = Nil THEN {}
  ELSE DOMAIN rules.TokenLookup[1]

\* the steps at which the classifier met a lexeme that is not in the table
MissSteps ==
  {i \in 1..Len(history) :
     /\ ByteAt(history[i].from) \notin Digits
     /\ Slice2(input, history[i].from, CandidateEnd(history[i].from))
          \notin TableLexemes}

(* C15: a candidate lexeme that is not in the rule table is emitted as a   *)
(* Variable token covering the whole run when it is an identifier run, and *)
(* otherwise as an Unclassified token of exactly one rune, after which     *)
(* lexing resumes at the next rune.                                        *)
C15_MissClassification ==
  \A i \in MissSteps :
     IF IdentifierRunEnd(history[i].from) > history[i].from
     THEN /\ tokens[i].Type = TokenType.Variable
          /\ tokens[i].Text = Slice2(input, history[i].from,
                                     IdentifierRunEnd(history[i].from))
          /\ history[i].to = IdentifierRunEnd(history[i].from)
     ELSE /\ tokens[i].Type = TokenType.Unclassified
          /\ tokens[i].Text
               = RuneBytes(DecodeRuneInString(input, history[i].from).r)
          /\ history[i].to
               = history[i].from + DecodeRuneInString(input, history[i].from).size
          /\ i < Len(history) => history[i + 1].gap = history[i].to

\* an operator run of two runes that is not in the table has been lexed as
\* an Unclassified token and a further token, after a Variable of two bytes
C15_Witness ==
  \E i, j \in MissSteps :
     /\ tokens[i].Type = TokenType.Variable
     /\ Len(tokens[i].Text) >= 2
     /\ j < Len(tokens)
     /\ tokens[j].Type = TokenType.Unclassified
     /\ RunEnd(history[j].from, OperatorChars) >= history[j].from + 2

-----------------------------------------------------------------------------
(* Interpolated strings: one double-quoted string of chunks and \( ... )   *)
(* interpolations.                                                         *)

VocabInterp ==
  { <<"\"">>, <<"a">>, <<"\\", "(">>, <<"n", ")">>, <<"r", ")">>, <<")">> }

MaxPiecesInterp == 6

InitInterp ==
  \E in \in Concats(VocabInterp, MaxPiecesInterp) : NewTokenizerWithRules(in, DefaultRules)

SpecInterp == InitInterp /\ [][Next]_vars

\* the index of the first ")" of a text at or after index k, 0 when none
ClosingAt(body, k) ==
  IF \E j \in k..Len(body) : body[j] = ")"
  THEN CHOOSE j \in k..Len(body) :
         body[j] = ")" /\ \A m \in k..(j - 1) : body[m] # ")"
  ELSE 0

\* the body of a string is made of plain characters and of interpolations
\* \( ... ) without brackets or quotes inside, read from index k
RECURSIVE IsInterpolatedBody(_, _)
IsInterpolatedBody(body, k) ==
  IF k > Len(body) THEN TRUE
  ELSE IF body[k] = "\\"
  THEN /\ k < Len(body)
       /\ body[k + 1] = "("
       /\ ClosingAt(body, k + 2) > 0
       /\ \A j \in (k + 2)..(ClosingAt(body, k + 2) - 1) :
             body[j] \notin {"\"", "(", "\\"}
       /\ IsInterpolatedBody(body, ClosingAt(body, k + 2) + 1)
  ELSE body[k] \notin {"\"", "(", ")"} /\ IsInterpolatedBody(body, k + 1)

\* the source is one double-quoted string with at least one interpolation
IsInterpolatedString(text) ==
  /\ Len(text) >= 2
  /\ text[1] = "\""
  /\ text[Len(text)] = "\""
  /\ IsInterpolatedBody(SubSeq(text, 2, Len(text) - 1), 1)
  /\ \E k \in 2..(Len(text) - 1) : text[k] = "\\"

\* the sub-tokens of such a body, as pairs of type and value: an s for every
\* non-empty chunk, an e with the interior for every interpolation
RECURSIVE ExpectedSubtokens(_, _, _)
ExpectedSubtokens(body, k, chunk) ==
  LET flushed == IF chunk # <<>> THEN << <<TokenType.StringLiteral, chunk>> >>
                 ELSE <<>>
  IN  IF k > Len(body) THEN flushed
      ELSE IF body[k] = "\\"
      THEN flushed
             \o << <<TokenType.Expression,
                     SubSeq(body, k + 2, ClosingAt(body, k + 2) - 1)>> >>
             \o ExpectedSubtokens(body, ClosingAt(body, k + 2) + 1, <<>>)
      ELSE ExpectedSubtokens(body, k + 1, Append(chunk, body[k]))

(* C16: a single-line string with interpolations is emitted as one token   *)
(* whose sub-tokens are, in source order, an s sub-token per string chunk  *)
(* and an e sub-token per interpolation, the e sub-token carrying the raw  *)
(* text inside its brackets.                                               *)
C16_InterpolationSubtokens ==
  (pc = "done" /\ IsInterpolatedString(input)) =>
     /\ err = Nil
     /\ Len(tokens) = 1
     /\ [j \in 1..Len(tokens[1].Subtokens) |->
           <<tokens[1].Subtokens[j].Type, tokens[1].Subtokens[j].Value[1]>>]
          = ExpectedSubtokens(SubSeq(input, 2, Len(input) - 1), 1, <<>>)

-----------------------------------------------------------------------------
(* Tagging of single-line strings.                                         *)

\* a single-line string token: plain or interpolated
IsSingleLineString(tok) ==
  tok.Type \in {TokenType.StringLiteral, TokenType.InterpolatedString}

\* the token holds an interpolation: one of its sub-tokens is an expression
HasInterpolation(tok) ==
  \E j \in 1..Len(tok.Subtokens) : tok.Subtokens[j].Type = TokenType.Expression

(* C17: a single-line string token has type i exactly when it carries      *)
(* sub-tokens, and a single-line string without an interpolation is a      *)
(* plain token of type s with its value set and no sub-tokens.             *)
C17_InterpolatedTagging ==
  \A i \in 1..Len(tokens) :
     IsSingleLineString(tokens[i]) =>
        /\ (tokens[i].Type = TokenType.InterpolatedString)
              <=> (Len(tokens[i].Subtokens) > 0)
        /\ ~HasInterpolation(tokens[i]) =>
              /\ tokens[i].Type = TokenType.StringLiteral
              /\ tokens[i].Value # Nil
              /\ tokens[i].Subtokens = <<>>

-----------------------------------------------------------------------------
(* Triple-quoted blocks.                                                   *)

VocabMulti ==
  { <<"\"", "\"", "\"">>, <<"\n">>, <<" ">>, <<"a">> }

MaxPiecesMulti == 7

InitMulti ==
  \E in \in Concats(VocabMulti, MaxPiecesMulti) : NewTokenizerWithRules(in, DefaultRules)

SpecMulti == InitMulti /\ [][Next]_vars

\* the lines of a text: the pieces between its line feeds
RECURSIVE LinesOf(_)
LinesOf(s) ==
  IF \A i \in 1..Len(s) : s[i] # "\n" THEN <<s>>
  ELSE LET i == CHOOSE i \in 1..Len(s) :
                   s[i] = "\n" /\ \A j \in 1..(i - 1) : s[j] # "\n"
       IN  <<SubSeq(s, 1, i - 1)>> \o LinesOf(SubSeq(s, i + 1, Len(s)))

\* the input is one block: an opening line of three quotes, content lines
\* without quotes, and a closing line of spaces and three quotes
IsBlock(text) ==
  /\ Len(text) >= 7
  /\ SubSeq(text, 1, 4) = <<"\"", "\"", "\"", "\n">>
  /\ SubSeq(text, Len(text) - 2, Len(text)) = <<"\"", "\"", "\"">>
  /\ \A i \in 5..(Len(text) - 3) : text[i] # "\""
  /\ \A i \in 1..Len(Last(LinesOf(SubSeq(text, 5, Len(text) - 3)))) :
        Last(LinesOf(SubSeq(text, 5, Len(text) - 3)))[i] = " "

\* the closing indent of a block and its content lines
ClosingIndentOf(text) == Last(LinesOf(SubSeq(text, 5, Len(text) - 3)))

ContentLines(text) ==
  SubSeq(LinesOf(SubSeq(text, 5, Len(text) - 3)), 1,
         Len(LinesOf(SubSeq(text, 5, Len(text) - 3))) - 1)

BeginsWith(s, prefix) ==
  Len(s) >= Len(prefix) /\ SubSeq(s, 1, Len(prefix)) = prefix

\* a content line with the closing indent stripped
Stripped(s, indent) ==
  IF BeginsWith(s, indent) THEN SubSeq(s, Len(indent) + 1, Len(s)) ELSE s

\* a sub-token holds a line: its value is the line, an empty line may have
\* no value at all
HoldsLine(tok, s) ==
  tok.Value = Ptr(s) \/ (s = <<>> /\ tok.Value = Nil)

(* C18: a triple-quoted block whose non-empty content lines all begin with *)
(* the closing indent is one multi-line token with one sub-token per       *)
(* content line, each holding its line without the closing indent; a block *)
(* with a non-empty content line that does not begin with the closing      *)
(* indent makes the run fail.                                              *)
C18_BlockSubtokens ==
  (pc = "done" /\ IsBlock(input)) =>
     IF \A j \in 1..Len(ContentLines(input)) :
           \/ ContentLines(input)[j] = <<>>
           \/ BeginsWith(ContentLines(input)[j], ClosingIndentOf(input))
     THEN /\ err = Nil
          /\ Len(tokens) = 1
          /\ tokens[1].Type = TokenType.MultiLineString
          /\ Len(tokens[1].Subtokens) = Len(ContentLines(input))
          /\ \A j \in 1..Len(tokens[1].Subtokens) :
                j <= Len(ContentLines(input)) =>
                   HoldsLine(tokens[1].Subtokens[j],
                             Stripped(ContentLines(input)[j], ClosingIndentOf(input)))
     ELSE err # Nil

-----------------------------------------------------------------------------
(* Line breaks inside single-line strings and interpolations.              *)

VocabBreak ==
  { <<"\"">>, <<"a">>, <<"\n">>, <<"\r">>, <<"\\", "(">>, <<")">>,
    <<"\\", "(", "'">>, <<"'", ")">> }

MaxPiecesBreak == 5

InitBreak ==
  \E in \in Concats(VocabBreak, MaxPiecesBreak) : NewTokenizerWithRules(in, DefaultRules)

SpecBreak == InitBreak /\ [][Next]_vars

\* the input is one double-quoted string, the two quotes being its only
\* ones, with a line break between them
HasBreakInString(text) ==
  /\ Len(text) >= 3
  /\ text[1] = "\""
  /\ text[Len(text)] = "\""
  /\ \A i \in 2..(Len(text) - 1) : text[i] # "\""
  /\ \E i \in 2..(Len(text) - 1) : text[i] \in {"\n", "\r"}

(* C19: a line feed or a carriage return inside a non-raw single-line      *)
(* string, or inside an interpolation of it, a string nested in the        *)
(* interpolation included, makes the run fail and no string token is       *)
(* produced.                                                               *)
C19_LineBreakRejected ==
  (pc = "done" /\ HasBreakInString(input)) =>
     /\ err # Nil
     /\ \A i \in 1..Len(tokens) : ~IsSingleLineString(tokens[i])

-----------------------------------------------------------------------------
(* Unicode escapes.                                                        *)

VocabUnicode ==
  { <<"\"", "\\", "u">>, <<"0">>, <<"a">>, <<"g">>, <<"+">>, <<"\"">> }

MaxPiecesUnicode == 6

InitUnicode ==
  \E in \in Concats(VocabUnicode, MaxPiecesUnicode) : NewTokenizerWithRules(in, DefaultRules)

SpecUnicode == InitUnicode /\ [][Next]_vars

\* the input is one double-quoted string that opens with \u, the two quotes
\* being its only ones
IsUnicodeString(text) ==
  /\ Len(text) >= 4
  /\ SubSeq(text, 1, 3) = <<"\"", "\\", "u">>
  /\ text[Len(text)] = "\""
  /\ \A i \in 4..(Len(text) - 1) : text[i] # "\""

\* what follows \u up to the closing quote
AfterEscape(text) == SubSeq(text, 4, Len(text) - 1)

\* \u is followed by four hexadecimal digits
IsWellFormedEscape(rest) ==
  Len(rest) >= 4 /\ \A i \in 1..4 : rest[i] \in HexDigitChars

\* the value of a string that opens with \u: the scalar and what follows
\* it, or the text as written when the escape is malformed
UnicodeValue(rest) ==
  IF IsWellFormedEscape(rest)
  THEN <<"U+" \o UpperHex(rest[1]) \o UpperHex(rest[2]) \o UpperHex(rest[3])
              \o UpperHex(rest[4])>> \o SubSeq(rest, 5, Len(rest))
  ELSE <<"\\", "u">> \o rest

(* C20: in a non-raw string \u followed by four hexadecimal digits stands  *)
(* for the scalar of that code; a malformed \u sequence is kept as written *)
(* in the value, and the string is still closed by its own closing quote.  *)
C20_UnicodeEscape ==
  (pc = "done" /\ IsUnicodeString(input)) =>
     /\ err = Nil
     /\ Len(tokens) = 1
     /\ tokens[1].Type = TokenType.StringLiteral
     /\ tokens[1].Text = input
     /\ tokens[1].Value = Ptr(UnicodeValue(AfterEscape(input)))

-----------------------------------------------------------------------------
(* Lines and columns.  The vocabulary holds a two-byte character.          *)

VocabCol ==
  { <<"a">>, <<" ">>, <<"\n">>, <<"C3", "A9">>, <<"+">>, <<"7">> }

MaxPiecesCol == 5

InitCol ==
  \E in \in Concats(VocabCol, MaxPiecesCol) : NewTokenizerWithRules(in, DefaultRules)

SpecCol == InitCol /\ [][Next]_vars

\* the number of line feeds before byte offset p
BreaksBefore(p) == Cardinality({i \in 1..p : input[i] = "\n"})

\* the number of characters between the start of its line and byte offset p
CharsBefore(p) ==
  Cardinality({i \in 1..p :
                 /\ input[i] \notin ContinuationBytes
                 /\ \A j \in i..p : input[j] # "\n"})

(* C21: lines and columns count from 1 and the column counts characters,   *)
(* not bytes: every token starts on the line one more than the number of   *)
(* line feeds before it and at the column one more than the number of      *)
(* characters before it on that line.                                      *)
C21_ColumnsCountRunes ==
  \A i \in 1..Len(tokens) :
     i <= Len(history) =>
        /\ tokens[i].Span.Start.Line = BreaksBefore(history[i].from) + 1
        /\ tokens[i].Span.Start.Col = CharsBefore(history[i].from) + 1

-----------------------------------------------------------------------------
(* Derived operator precedences.                                           *)

VocabOps ==
  { <<"+">>, <<"-">>, <<"*", " ">>, <<"=", "=">>, <<".", ".", "<">>, <<"<", "-">>,
    <<"a">>, <<" ">> }

MaxPiecesOps == 4

InitOps ==
  \E in \in Concats(VocabOps, MaxPiecesOps) : NewTokenizerWithRules(in, DefaultRules)

SpecOps == InitOps /\ [][Next]_vars

\* b: the base precedence of the first glyph, 1000 without one, less 1 when
\* the second character repeats the first
DerivedBase(text) ==
  (IF text[1] \in DOMAIN baseOperatorPrecedence
   THEN baseOperatorPrecedence[text[1]] ELSE 1000)
  - (IF Len(text) > 1 /\ text[2] = text[1] THEN 1 ELSE 0)

\* an operator token whose precedence is derived from its glyphs
IsDerivedOperator(tok) ==
  /\ tok.Type = TokenType.Operator
  /\ tok.Text # <<>>
  /\ tok.Text[1] \in OperatorChars

(* C22: an operator with a derived precedence carries the prefix           *)
(* precedence b for - and + and 0 otherwise, the infix precedence          *)
(* b + 2000 and the postfix precedence 0, where b is the base precedence   *)
(* of its first glyph (1000 without one) less 1 when the second character  *)
(* repeats the first.                                                      *)
C22_DerivedPrecedence ==
  \A i \in 1..Len(tokens) :
     IsDerivedOperator(tokens[i]) =>
        tokens[i].Precedence =
           Ptr(<<IF tokens[i].Text \in {<<"-">>, <<"+">>}
                 THEN DerivedBase(tokens[i].Text) ELSE 0,
                 DerivedBase(tokens[i].Text) + 2000,
                 0>>)

\* the operators +, * and == have been emitted with the precedences
\* [80, 2080, 0], [0, 2050, 0] and [0, 2179, 0]
C22_Witness ==
  /\ pc = "done"
  /\ \E i \in 1..Len(tokens) :
        tokens[i].Text = <<"+">> /\ tokens[i].Precedence = Ptr(<<80, 2080, 0>>)
  /\ \E i \in 1..Len(tokens) :
        tokens[i].Text = <<"*">> /\ tokens[i].Precedence = Ptr(<<0, 2050, 0>>)
  /\ \E i \in 1..Len(tokens) :
        tokens[i].Text = <<"=", "=">> /\ tokens[i].Precedence = Ptr(<<0, 2179, 0>>)

-----------------------------------------------------------------------------
(* The exhaustion law: an input s1 \o s2 is tokenized, then s1 and s2,     *)
(* each with a new Tokenizer.  1x0 is a numeric literal that is rejected.  *)

VocabFirst ==
  { <<"i", "f", " ">>, <<"e", "n", "d", " ">>, <<"x">>, <<"+">>, <<" ">>,
    <<"#", "#", "#">>, <<"1", "x", "0", " ">> }

VocabSecond ==
  { <<":", " ">>, <<"x">>, <<"+">>, <<" ">>, <<"i", "f", " ">> }

MaxPiecesFirst == 2

MaxPiecesSecond == 2

InitSeries ==
  \E s1 \in Concats(VocabFirst, MaxPiecesFirst),
     s2 \in Concats(VocabSecond, MaxPiecesSecond) :
     /\ rulesFile = Nil
     /\ input = s1 \o s2
     /\ rules = DefaultRules
     /\ position = 0
     /\ line = 1
     /\ column = 1
     /\ markStack = <<>>
     /\ tokens = <<>>
     /\ expectingStack = <<>>
     /\ pc = "run"
     /\ err = Nil
     /\ history = <<>>
     /\ queue = <<s1, s2>>
     /\ finished = <<>>

SpecSeries == InitSeries /\ [][NextSeries]_vars

\* the three runs are over: finished[1] is the run on s1 \o s2, finished[2]
\* the run on s1, and the variables hold the run on s2
SeriesDone == pc = "done" /\ queue = <<>> /\ Len(finished) = 2

\* a token without its positions and its line-break flags
Unplaced(tok) ==
  [tok EXCEPT !.Span = Nil, !.LnBefore = Nil, !.LnAfter = Nil]

UnplacedAll(toks) == [i \in 1..Len(toks) |-> Unplaced(toks[i])]

\* no token of a run lies across byte offset p
NoTokenAcross(run, p) ==
  \A i \in 1..Len(run.history) :
     ~(run.history[i].from < p /\ p < run.history[i].to)

\* the text ends with a space or a line break that no comment holds
EndsOutsideToken(text) ==
  /\ text # <<>>
  /\ Last(text) \in {" ", "\n"}
  /\ \/ Last(text) = "\n"
     \/ \A i \in 1..Len(text) :
           text[i] = "#" => \E j \in i..Len(text) : text[j] = "\n"

RECURSIVE OpenBlocks(_, _)
OpenBlocks(toks, depth) ==
  IF toks = <<>> THEN depth
  ELSE OpenBlocks(Tail(toks),
         IF Head(toks).Type = TokenType.Start /\ SliceLen(Head(toks).Expecting) > 0
         THEN depth + 1
         ELSE IF Head(toks).Type = TokenType.End /\ depth > 0 THEN depth - 1
         ELSE depth)

-----------------------------------------------------------------------------
(* Blocks and the expectation stack.  let is a Start keyword that expects  *)
(* nothing.                                                                *)

VocabBlock ==
  { <<"i", "f", " ">>, <<"l", "e", "t", " ">>, <<"t", "h", "e", "n", " ">>,
    <<"e", "l", "s", "e", " ">>, <<"e", "n", "d", " ">>, <<"x", " ">>,
    <<":", " ">> }

MaxPiecesBlock == 4

InitBlock ==
  \E in \in Concats(VocabBlock, MaxPiecesBlock) : NewTokenizerWithRules(in, DefaultRules)

SpecBlock == InitBlock /\ [][Next]_vars

\* the steps that emitted a token of the given type
StepsOf(type) ==
  {i \in 1..Len(history) : i <= Len(tokens) /\ tokens[i].Type = type}

\* the Start tokens that expect something
PushingStarts ==
  {i \in StepsOf(TokenType.Start) : SliceLen(tokens[i].Expecting) > 0}

\* the steps whose token is not a Start, End or Bridge token
InertSteps ==
  {i \in 1..Len(history) :
     /\ i <= Len(tokens)
     /\ tokens[i].Type \notin {TokenType.Start, TokenType.End, TokenType.Bridge}}

(* C24: a Start token with a non-empty expecting list makes the stack one  *)
(* frame deeper, the new top frame being that list; a Start token with an  *)
(* empty expecting list and every token that is not a Start, End or Bridge *)
(* token leave the stack as it was.                                        *)
C24_StartPushes ==
  /\ \A i \in PushingStarts :
        /\ Len(history[i].stackAfter) = Len(history[i].stackBefore) + 1
        /\ Last(history[i].stackAfter) = tokens[i].Expecting
  /\ \A i \in (StepsOf(TokenType.Start) \ PushingStarts) \cup InertSteps :
        history[i].stackAfter = history[i].stackBefore

\* a Start token has pushed a second frame, a let has left the stack alone
\* and so has a variable
C24_Witness ==
  /\ \E i \in PushingStarts : Len(history[i].stackBefore) = 1
  /\ \E i \in StepsOf(TokenType.Start) \ PushingStarts :
        Len(history[i].stackBefore) > 0
  /\ \E i \in InertSteps : Len(history[i].stackBefore) > 0

(* C25: after every End token the stack is strictly less deep than it was  *)
(* before that token.                                                      *)
C25_EndPops ==
  \A i \in StepsOf(TokenType.End) :
     Len(history[i].stackAfter) < Len(history[i].stackBefore)

(* C26: a Bridge token leaves the depth of the stack as it was, and the    *)
(* top frame of a non-empty stack becomes the token's expecting list.      *)
C26_BridgeReplaces ==
  \A i \in StepsOf(TokenType.Bridge) :
     /\ Len(history[i].stackAfter) = Len(history[i].stackBefore)
     /\ history[i].stackBefore # <<>> =>
           /\ history[i].stackAfter # <<>>
           /\ Last(history[i].stackAfter) = tokens[i].Expecting

(* C25 as amended: an End token met with a non-empty stack removes the top *)
(* frame and no other, and an End token met with an empty stack leaves it  *)
(* empty.                                                                  *)
C25_EndPopsUnlessEmpty ==
  \A i \in StepsOf(TokenType.End) :
     IF history[i].stackBefore # <<>>
     THEN history[i].stackAfter
             = SubSeq(history[i].stackBefore, 1, Len(history[i].stackBefore) - 1)
     ELSE history[i].stackAfter = <<>>

\* an End token has been emitted with two frames on the stack, and one
\* with none
C25_Witness ==
  /\ \E i \in StepsOf(TokenType.End) : Len(history[i].stackBefore) = 2
  /\ \E i \in StepsOf(TokenType.End) : history[i].stackBefore = <<>>

-----------------------------------------------------------------------------
(* Bridge tokens under a rules file: the Start keyword b expects w, the    *)
(* Bridge rule of w has an expecting list and that of v has one or none.   *)

BridgeRuleInputs ==
  { [Bracket |-> <<>>, Prefix |-> <<>>, Operator |-> <<>>, Mark |-> <<>>,
     Wildcard |-> <<>>,
     Start |-> << [Text |-> <<"b">>, ClosedBy |-> Slice(<< <<"e">> >>),
                   Expecting |-> Slice(<< <<"w">> >>), Single |-> FALSE] >>,
     Bridge |-> << [Text |-> <<"w">>, Expecting |-> exw,
                    In |-> Slice(<< <<"b">> >>)],
                   [Text |-> <<"v">>, Expecting |-> exv,
                    In |-> Slice(<< <<"b">> >>)] >>] :
       exw \in {Slice(<<>>), Slice(<< <<"v">> >>)},
       exv \in {Nil, Slice(<< <<"w">> >>)} }

VocabBridge ==
  { <<"b", " ">>, <<"w", " ">>, <<"v", " ">>, <<"e", " ">>, <<":", " ">>,
    <<"x", " ">> }

MaxPiecesBridge == 4

\* main has read the source and loaded the rules file
InitBridge ==
  \E rf \in BridgeRuleInputs, in \in Concats(VocabBridge, MaxPiecesBridge) :
     /\ rulesFile = Ptr(rf)
     /\ input = in
     /\ rules = Nil
     /\ position = 0
     /\ line = 1
     /\ column = 1
     /\ markStack = <<>>
     /\ tokens = <<>>
     /\ expectingStack = <<>>
     /\ pc = "main"
     /\ err = Nil
     /\ history = <<>>
     /\ queue = <<>>
     /\ finished = <<>>

SpecBridge == InitBridge /\ [][NextRules]_vars

(* C26 as amended: a Bridge token leaves the depth of the stack as it was; *)
(* when the token has an expecting list, be it empty, the top frame of a   *)
(* non-empty stack becomes that list, and a Bridge token whose rule names  *)
(* no expecting list leaves the whole stack as it was.                     *)
C26_BridgeReplacesExplicit ==
  \A i \in StepsOf(TokenType.Bridge) :
     /\ Len(history[i].stackAfter) = Len(history[i].stackBefore)
     /\ (history[i].stackBefore # <<>> /\ tokens[i].Expecting # Nil) =>
           /\ history[i].stackAfter # <<>>
           /\ Last(history[i].stackAfter) = tokens[i].Expecting
           /\ SubSeq(history[i].stackAfter, 1, Len(history[i].stackAfter) - 1)
                = SubSeq(history[i].stackBefore, 1, Len(history[i].stackBefore) - 1)
     /\ tokens[i].Expecting = Nil => history[i].stackAfter = history[i].stackBefore

\* a Bridge token with an expecting list has replaced the top of two
\* frames, and a Bridge token without one has left a frame in place
C26_Witness ==
  /\ \E i \in StepsOf(TokenType.Bridge) :
        /\ Len(history[i].stackBefore) = 2
        /\ tokens[i].Expecting # Nil
        /\ Last(history[i].stackAfter) # Last(history[i].stackBefore)
  /\ \E i \in StepsOf(TokenType.Bridge) :
        /\ history[i].stackBefore # <<>>
        /\ tokens[i].Expecting = Nil

-----------------------------------------------------------------------------
(* Balanced nesting of blocks, checked under SpecBlock.                    *)

\* the number of tokens of a type among the tokens a+1 .. b
CountBetween(type, a, b) ==
  Cardinality({k \in (a + 1)..b : tokens[k].Type = type})

\* the End token j closes the Start token i: the blocks opened between
\* them are closed between them
Closes(i, j) ==
  /\ i < j
  /\ tokens[i].Type = TokenType.Start
  /\ tokens[j].Type = TokenType.End
  /\ \A k \in (i + 1)..(j - 1) :
        CountBetween(TokenType.End, i, k) <= CountBetween(TokenType.Start, i, k)
  /\ CountBetween(TokenType.End, i, j - 1) = CountBetween(TokenType.Start, i, j - 1)

(* C27: for a Start token and the End token that closes it, the stack      *)
(* after the End token is the stack before the Start token, so that        *)
(* closing a block neither removes nor alters a frame of an enclosing      *)
(* block.                                                                  *)
C27_BalancedNesting ==
  \A i, j \in 1..Len(history) :
     (j <= Len(tokens) /\ Closes(i, j)) =>
        history[j].stackAfter = history[i].stackBefore

-----------------------------------------------------------------------------
(* Acceptance of interpolations, checked under SpecInterp.                 *)

(* C28: a string whose interpolations hold neither brackets, quotes nor    *)
(* line breaks is accepted whatever letters they hold: the run ends        *)
(* without an error and with the string as its only token.                 *)
C28_InterpolationAccepted ==
  (pc = "done" /\ IsInterpolatedString(input)) =>
     /\ err = Nil
     /\ Len(tokens) = 1
     /\ tokens[1].Text = input

-----------------------------------------------------------------------------
(* The lookup table under rules files in which a closer may also be a      *)
(* defined lexeme.                                                         *)

LookupRuleInputs ==
  { [Prefix |-> <<>>, Operator |-> <<>>, Mark |-> <<>>, Wildcard |-> <<>>,
     Start |-> << [Text |-> <<"b">>, ClosedBy |-> Slice(<< c >>),
                   Expecting |-> Slice(<< <<"w">> >>), Single |-> FALSE] >>,
     Bridge |-> << [Text |-> <<"w">>, Expecting |-> Slice(<<>>),
                    In |-> Slice(<< <<"b">> >>)] >>,
     Bracket |-> << [Text |-> <<"(">>, ClosedBy |-> Slice(<< d >>),
                     InfixPrec |-> 5, Prefix |-> FALSE] >>] :
       c \in {<<"e">>, <<"w">>, <<")">>}, d \in {<<")">>, <<"w">>} }

VocabLookup ==
  { <<"b", " ">>, <<"w", " ">>, <<"e", " ">>, <<"(", " ">>, <<")", " ">> }

MaxPiecesLookup == 3

\* main has read the source and loaded the rules file
InitLookup ==
  \E rf \in LookupRuleInputs, in \in Concats(VocabLookup, MaxPiecesLookup) :
     /\ rulesFile = Ptr(rf)
     /\ input = in
     /\ rules = Nil
     /\ position = 0
     /\ line = 1
     /\ column = 1
     /\ markStack = <<>>
     /\ tokens = <<>>
     /\ expectingStack = <<>>
     /\ pc = "main"
     /\ err = Nil
     /\ history = <<>>
     /\ queue = <<>>
     /\ finished = <<>>

SpecLookup == InitLookup /\ [][NextRules]_vars

\* the lexeme is in the table with the given kind and payload
LooksUpAs(lexeme, type, data) ==
  /\ lexeme \in DOMAIN rules.TokenLookup[1]
  /\ rules.TokenLookup[1][lexeme].Type = type
  /\ rules.TokenLookup[1][lexeme].Data = data

\* the lexeme is in the table with the given kind
LooksUpAsKind(lexeme, type) ==
  /\ lexeme \in DOMAIN rules.TokenLookup[1]
  /\ rules.TokenLookup[1][lexeme].Type = type

\* the lexemes that the rules of the defining categories name
DefinedLexemes ==
  rules.WildcardTokens \cup DOMAIN rules.StartTokens
    \cup DOMAIN rules.BridgeTokens \cup rules.PrefixTokens
    \cup rules.MarkTokens \cup DOMAIN rules.OperatorPrecedences
    \cup DOMAIN rules.DelimiterMappings

(* C29: once the table is built, every lexeme of a Wildcard, Start,        *)
(* Bridge, Prefix, Operator, Mark or OpenDelim rule is looked up as that   *)
(* kind with the payload of its rule, and a closer of a bracket that no    *)
(* rule defines is looked up as CloseDelim: no derived End or CloseDelim   *)
(* entry replaces the entry of a defining rule, and no End entry replaces  *)
(* a CloseDelim entry.                                                     *)
C29_DefinedLexemesKept ==
  (pc \in {"run", "done"} /\ rules # Nil) =>
     /\ \A k \in rules.WildcardTokens : LooksUpAs(k, CustomRuleType.Wildcard, Nil)
     /\ \A k \in DOMAIN rules.StartTokens :
           LooksUpAs(k, CustomRuleType.Start, rules.StartTokens[k])
     /\ \A k \in DOMAIN rules.BridgeTokens :
           LooksUpAs(k, CustomRuleType.Bridge, rules.BridgeTokens[k])
     /\ \A k \in rules.PrefixTokens : LooksUpAsKind(k, CustomRuleType.Prefix)
     /\ \A k \in rules.MarkTokens : LooksUpAs(k, CustomRuleType.Mark, Nil)
     /\ \A k \in DOMAIN rules.OperatorPrecedences :
           LooksUpAs(k, CustomRuleType.Operator, rules.OperatorPrecedences[k])
     /\ \A k \in DOMAIN rules.DelimiterMappings :
           /\ LooksUpAsKind(k, CustomRuleType.OpenDelimiter)
           /\ rules.TokenLookup[1][k].Data.ClosedBy = rules.DelimiterMappings[k]
     /\ \A k \in closeDelimiters(rules) \ DefinedLexemes :
           LooksUpAsKind(k, CustomRuleType.CloseDelimiter)

-----------------------------------------------------------------------------
(* Termination.  The input is a series of whole strings and other tokens,  *)
(* the prefix keyword var among them, closed by nothing, by a string that  *)
(* is not terminated or by a byte that is no character.                    *)

VocabTerm ==
  { <<"\"", "a", "\"">>, <<"\"", "\\", "(", "a", ")", "\"">>,
    <<"\"", "\"", "\"", "\n", "a", "\n", "\"", "\"", "\"">>,
    <<"~">>, <<"a", " ">>, <<"\n">>, <<"v", "a", "r">> }

TailsTerm ==
  { <<>>, <<"\"", "a">>, <<"\"", "\\", "(", "a">>, <<"\"", "\\", "(", "a", ")">>,
    <<"\"", "\"", "\"", "\n", "a">>, <<"\"", "\"", "\"", "\n", "a", "\n">>,
    <<"C3">> }

MaxPiecesTerm == 3

InitTerm ==
  \E body \in Concats(VocabTerm, MaxPiecesTerm), tail \in TailsTerm :
     NewTokenizerWithRules(body \o tail, DefaultRules)

\* the loop of Tokenize runs on as long as it can: weak fairness of its two
\* steps, ENABLED <<TokenizeStep>>_vars being written out as the loop
\* condition
FairTerm ==
  /\ WF_vars(TokenizeReturn)
  /\ \/ []<>~(pc = "run" /\ position < Len(input))
     \/ []<><<TokenizeStep>>_vars

SpecTerm == InitTerm /\ [][Next]_vars /\ FairTerm

(* C30: Tokenize terminates on every input: each iteration of its loop     *)
(* moves the position strictly forward or returns an error, and the run    *)
(* ends.                                                                   *)
C30_Terminates ==
  /\ [][TokenizeStep => (position' > position \/ err' # Nil)]_vars
  /\ <>(pc = "done")

====
